---------------------------- MODULE Spec2Model ----------------------------
(***************************************************************************)
(* CHIP-8 interpreter (src/src/chip8.rs): the machine `Chip8`, its public  *)
(* operations (reset, terminate, toggle_execution, on_timer, teak,         *)
(* key_down, key_up) and every instruction handler, as a state machine.    *)
(***************************************************************************)
EXTENDS Integers, Sequences, FiniteSets, TLC

(***************************************************************************)
(* Program constants                                                       *)
(***************************************************************************)
MEMORY_SIZE == 4096
REGISTERS_COUNT == 16
STACK_SIZE == 16
DISPLAY_HEIGHT == 32
DISPLAY_WIDTH == 64
FONT_BASE_ADDRESS == 80
STACK_BASE_ADDRESS == 16
PROGRAM_BASE_ADDRESS == 512
KB_WAIT_KEYCODE_ADDRESS == 0
KEYPAD_SIZE == 16

FONT_SPRITES ==
    << 240, 144, 144, 144, 240,   32,  96,  32,  32, 112,
       240,  16, 240, 128, 240,  240,  16, 240,  16, 240,
       144, 144, 240,  16,  16,  240, 128, 240,  16, 240,
       240, 128, 240, 144, 240,  240,  16,  32,  64,  64,
       240, 144, 240, 144, 240,  240, 144, 240,  16, 240,
       240, 144, 240, 144, 144,  224, 144, 224, 144, 224,
       240, 128, 128, 128, 240,  224, 144, 144, 144, 224,
       240, 128, 240, 128, 240,  240, 128, 240, 128, 128 >>

(***************************************************************************)
(* Fixed-width integer helpers (u8 / u16 operators of Rust)                *)
(***************************************************************************)
Bit(v, k) == (v \div (2 ^ k)) % 2

\* a & b on 8-bit values
And8(a, b) ==
    LET t[k \in 0..8] == IF k = 8 THEN 0
                         ELSE Bit(a, k) * Bit(b, k) * (2 ^ k) + t[k + 1]
    IN t[0]

\* a | b on 8-bit values
Or8(a, b) == a + b - And8(a, b)

\* a ^ b on 8-bit values
Xor8(a, b) == a + b - 2 * And8(a, b)

\* u8::wrapping_sub
WrappingSub8(a, b) == (a - b + 256) % 256

\* u8::saturating_sub
SaturatingSub8(a, b) == IF a >= b THEN a - b ELSE 0

(***************************************************************************)
(* Instruction::with_opcode / Instruction::with_bytes                      *)
(***************************************************************************)
\* faulty variant of with_opcode: n is taken from the y nibble
with_opcode_n_from_y(opcode) ==
    [ header |-> (opcode \div 4096) % 16,
      nnn    |-> opcode % 4096,
      nn     |-> opcode % 256,
      n      |-> (opcode \div 16) % 16,
      x      |-> (opcode \div 256) % 16,
      y      |-> (opcode \div 16) % 16 ]

with_opcode(opcode) ==
    [ header |-> (opcode \div 4096) % 16,
      nnn    |-> opcode % 4096,
      nn     |-> opcode % 256,
      n      |-> opcode % 16,
      x      |-> (opcode \div 256) % 16,
      y      |-> (opcode \div 16) % 16 ]

with_bytes(high, low) == with_opcode(high * 256 + low)

(***************************************************************************)
(* Quirks                                                                  *)
(***************************************************************************)
DefaultQuirks ==
    [ vf_reset |-> TRUE, memory |-> FALSE, shifting |-> TRUE, jumping |-> FALSE ]

(***************************************************************************)
(* Results of an operation on a machine record m                           *)
(*   res = "Ok" | "UnknownInstruction" | "StackOverflow" | "EmptyStack"    *)
(*       | "Panic" (index out of bounds / arithmetic overflow: the Rust    *)
(*          runtime aborts the call, no Result is returned)                *)
(***************************************************************************)
Done(m) == [m |-> m, res |-> "Ok"]

Fail(m, e) == [m |-> m, res |-> e]

(***************************************************************************)
(* Chip8::reset                                                            *)
(***************************************************************************)
\* faulty variant of reset: the keypad is left as it is
reset_keeps_keypad(m) ==
    [ m EXCEPT
        !.memory = [ a \in 0..(MEMORY_SIZE - 1) |->
                       IF a >= FONT_BASE_ADDRESS /\ a < FONT_BASE_ADDRESS + Len(FONT_SPRITES)
                       THEN FONT_SPRITES[a - FONT_BASE_ADDRESS + 1]
                       ELSE IF a >= PROGRAM_BASE_ADDRESS /\ a < PROGRAM_BASE_ADDRESS + Len(m.rom)
                       THEN m.rom[a - PROGRAM_BASE_ADDRESS + 1]
                       ELSE 0 ],
        !.reg = [ i \in 0..(REGISTERS_COUNT - 1) |-> 0 ],
        !.ri = 0,
        !.dt = 0,
        !.st = 0,
        !.sp = 0,
        !.pc = PROGRAM_BASE_ADDRESS,
        !.video_memory = [ i \in 0..(DISPLAY_HEIGHT * DISPLAY_WIDTH - 1) |-> 0 ],
        !.state = "Running" ]

reset(m) ==
    [ m EXCEPT
        !.memory = [ a \in 0..(MEMORY_SIZE - 1) |->
                       IF a >= FONT_BASE_ADDRESS /\ a < FONT_BASE_ADDRESS + Len(FONT_SPRITES)
                       THEN FONT_SPRITES[a - FONT_BASE_ADDRESS + 1]
                       ELSE IF a >= PROGRAM_BASE_ADDRESS /\ a < PROGRAM_BASE_ADDRESS + Len(m.rom)
                       THEN m.rom[a - PROGRAM_BASE_ADDRESS + 1]
                       ELSE 0 ],
        !.reg = [ i \in 0..(REGISTERS_COUNT - 1) |-> 0 ],
        !.ri = 0,
        !.dt = 0,
        !.st = 0,
        !.sp = 0,
        !.pc = PROGRAM_BASE_ADDRESS,
        !.video_memory = [ i \in 0..(DISPLAY_HEIGHT * DISPLAY_WIDTH - 1) |-> 0 ],
        !.keypad = [ k \in 0..(KEYPAD_SIZE - 1) |-> FALSE ],
        !.state = "Running" ]

(***************************************************************************)
(* Chip8::with_rom: the struct literal, then reset()                       *)
(***************************************************************************)
\* faulty variant of with_rom: a ROM that fills memory to its last byte is refused
with_rom_refuses_exact_fit(rom, quirks) ==
    IF Len(rom) >= MEMORY_SIZE - PROGRAM_BASE_ADDRESS
    THEN [ res |-> "RomTooBig", size |-> Len(rom) ]
    ELSE [ res |-> "Ok",
           m |-> reset([ reg |-> [ i \in 0..(REGISTERS_COUNT - 1) |-> 0 ],
                         ri |-> 0,
                         dt |-> 0,
                         st |-> 0,
                         sp |-> 0,
                         pc |-> PROGRAM_BASE_ADDRESS,
                         memory |-> [ a \in 0..(MEMORY_SIZE - 1) |-> 0 ],
                         video_memory |-> [ i \in 0..(DISPLAY_HEIGHT * DISPLAY_WIDTH - 1) |-> 0 ],
                         keypad |-> [ k \in 0..(KEYPAD_SIZE - 1) |-> FALSE ],
                         state |-> "Paused",
                         rom |-> rom,
                         quirks |-> quirks ]) ]

with_rom(rom, quirks) ==
    IF Len(rom) > MEMORY_SIZE - PROGRAM_BASE_ADDRESS
    THEN [ res |-> "RomTooBig", size |-> Len(rom) ]
    ELSE [ res |-> "Ok",
           m |-> reset([ reg |-> [ i \in 0..(REGISTERS_COUNT - 1) |-> 0 ],
                         ri |-> 0,
                         dt |-> 0,
                         st |-> 0,
                         sp |-> 0,
                         pc |-> PROGRAM_BASE_ADDRESS,
                         memory |-> [ a \in 0..(MEMORY_SIZE - 1) |-> 0 ],
                         video_memory |-> [ i \in 0..(DISPLAY_HEIGHT * DISPLAY_WIDTH - 1) |-> 0 ],
                         keypad |-> [ k \in 0..(KEYPAD_SIZE - 1) |-> FALSE ],
                         state |-> "Paused",
                         rom |-> rom,
                         quirks |-> quirks ]) ]

(***************************************************************************)
(* Chip8::terminate, toggle_execution, on_timer, key_down, key_up          *)
(***************************************************************************)
terminate(m) == [ m EXCEPT !.state = "Terminated" ]

\* faulty variant of toggle_execution: Terminated is toggled like Paused
toggle_execution_revives(m) ==
    [ m EXCEPT !.state = IF @ = "Running" THEN "Paused" ELSE "Running" ]

toggle_execution(m) ==
    [ m EXCEPT !.state = CASE @ = "Paused" -> "Running"
                           [] @ = "Running" -> "Paused"
                           [] @ = "Terminated" -> "Terminated" ]

\* faulty variant of on_timer: the counters wrap below 0
on_timer_wraps(m) ==
    [ m EXCEPT !.dt = WrappingSub8(@, 1), !.st = WrappingSub8(@, 1) ]

on_timer(m) ==
    [ m EXCEPT !.dt = SaturatingSub8(@, 1), !.st = SaturatingSub8(@, 1) ]

key_down(m, key_code) == [ m EXCEPT !.keypad[key_code] = TRUE ]

key_up(m, key_code) == [ m EXCEPT !.keypad[key_code] = FALSE ]

\* faulty variant of is_audio_playing: the last tick of a sound is silent
is_audio_playing_above_one(m) == m.st > 1

is_audio_playing(m) == m.st > 0

(***************************************************************************)
(* Chip8::push / Chip8::pop: the return-address stack lives in             *)
(* memory[STACK_BASE_ADDRESS ..], two bytes per entry, high byte first     *)
(***************************************************************************)
\* faulty variant of push: the limit is tested one entry too late
push_limit_off_by_one(m, value) ==
    IF m.sp > STACK_SIZE
    THEN Fail(m, "StackOverflow")
    ELSE LET high == (value \div 256) % 256
             low  == value % 256
         IN Done([ m EXCEPT
                     !.memory = [ [ @ EXCEPT ![STACK_BASE_ADDRESS + m.sp * 2] = high ]
                                    EXCEPT ![STACK_BASE_ADDRESS + m.sp * 2 + 1] = low ],
                     !.sp = @ + 1 ])

push(m, value) ==
    IF m.sp = STACK_SIZE
    THEN Fail(m, "StackOverflow")
    ELSE LET high == (value \div 256) % 256
             low  == value % 256
         IN Done([ m EXCEPT
                     !.memory = [ [ @ EXCEPT ![STACK_BASE_ADDRESS + m.sp * 2] = high ]
                                    EXCEPT ![STACK_BASE_ADDRESS + m.sp * 2 + 1] = low ],
                     !.sp = @ + 1 ])

\* faulty variant of pop: the entry is read before sp is decremented
pop_reads_above_top(m) ==
    IF m.sp = 0
    THEN [ m |-> m, res |-> "EmptyStack", value |-> 0 ]
    ELSE LET high == m.memory[STACK_BASE_ADDRESS + m.sp * 2]
             low  == m.memory[STACK_BASE_ADDRESS + m.sp * 2 + 1]
         IN [ m |-> [ m EXCEPT !.sp = @ - 1 ], res |-> "Ok", value |-> high * 256 + low ]

\* the popped value is returned in field value
pop(m) ==
    IF m.sp = 0
    THEN [ m |-> m, res |-> "EmptyStack", value |-> 0 ]
    ELSE LET sp1  == m.sp - 1
             high == m.memory[STACK_BASE_ADDRESS + sp1 * 2]
             low  == m.memory[STACK_BASE_ADDRESS + sp1 * 2 + 1]
         IN [ m |-> [ m EXCEPT !.sp = sp1 ], res |-> "Ok", value |-> high * 256 + low ]

(***************************************************************************)
(* The alternative the specification allows: the 16 return addresses kept  *)
(* in an array of their own (field stack) outside the 4096-byte memory.    *)
(***************************************************************************)
push_array(m, value) ==
    IF m.sp = STACK_SIZE
    THEN Fail(m, "StackOverflow")
    ELSE Done([ m EXCEPT !.stack[m.sp] = value % 65536, !.sp = @ + 1 ])

pop_array(m) ==
    IF m.sp = 0
    THEN [ m |-> m, res |-> "EmptyStack", value |-> 0 ]
    ELSE [ m |-> [ m EXCEPT !.sp = @ - 1 ], res |-> "Ok", value |-> m.stack[m.sp - 1] ]

\* mapped = TRUE: the machine of chip8.rs; FALSE: the separate-array machine
stack_push(m, value, mapped) == IF mapped THEN push(m, value) ELSE push_array(m, value)

stack_pop(m, mapped) == IF mapped THEN pop(m) ELSE pop_array(m)

(***************************************************************************)
(* Instruction handlers                                                    *)
(***************************************************************************)
op_clear_screen(m) ==
    Done([ m EXCEPT !.video_memory = [ i \in DOMAIN @ |-> 0 ] ])

op_return(m, mapped) ==
    LET p == stack_pop(m, mapped)
    IN IF p.res # "Ok" THEN Fail(p.m, p.res)
       ELSE Done([ p.m EXCEPT !.pc = p.value ])

op_jmp(m, address) == Done([ m EXCEPT !.pc = address ])

\* faulty variant of op_call: the address of the Call itself is pushed
op_call_pushes_own_address(m, address, mapped) ==
    LET ret_address == m.pc - 2
        p == stack_push(m, ret_address % 65536, mapped)
    IN IF p.res # "Ok" THEN Fail(p.m, p.res)
       ELSE Done([ p.m EXCEPT !.pc = address ])

\* faulty variant of op_call: pc is set to the target before the push is tried
op_call_jumps_first(m, address, mapped) ==
    LET ret_address == m.pc
        p == stack_push([ m EXCEPT !.pc = address ], ret_address % 65536, mapped)
    IN IF p.res # "Ok" THEN Fail(p.m, p.res) ELSE Done(p.m)

op_call(m, address, mapped) ==
    LET ret_address == m.pc
        p == stack_push(m, ret_address % 65536, mapped)
    IN IF p.res # "Ok" THEN Fail(p.m, p.res)
       ELSE Done([ p.m EXCEPT !.pc = address ])

op_skip_eq(m, x, value) ==
    Done(IF m.reg[x] = value THEN [ m EXCEPT !.pc = @ + 2 ] ELSE m)

op_skip_ne(m, x, value) ==
    Done(IF m.reg[x] # value THEN [ m EXCEPT !.pc = @ + 2 ] ELSE m)

op_skip_reg_eq(m, x, y) ==
    Done(IF m.reg[x] = m.reg[y] THEN [ m EXCEPT !.pc = @ + 2 ] ELSE m)

op_mov(m, x, value) == Done([ m EXCEPT !.reg[x] = value ])

op_add(m, x, value) ==
    LET sum == value + m.reg[x]
    IN Done([ m EXCEPT !.reg[x] = sum % 256 ])

\* faulty variant of op_reg_mov: the move clears VF as a flag instruction would
op_reg_mov_clears_vf(m, x, y) ==
    Done([ m EXCEPT !.reg = [ [ @ EXCEPT ![x] = m.reg[y] ] EXCEPT ![15] = 0 ] ])

op_reg_mov(m, x, y) == Done([ m EXCEPT !.reg[x] = m.reg[y] ])

\* the trailing `if self.quirks.vf_reset { self.reg[0xf] = 0 }` of or/and/xor
vf_reset(m, reg) == IF m.quirks.vf_reset THEN [ reg EXCEPT ![15] = 0 ] ELSE reg

op_or(m, x, y) ==
    Done([ m EXCEPT !.reg = vf_reset(m, [ @ EXCEPT ![x] = Or8(m.reg[x], m.reg[y]) ]) ])

op_and(m, x, y) ==
    Done([ m EXCEPT !.reg = vf_reset(m, [ @ EXCEPT ![x] = And8(m.reg[x], m.reg[y]) ]) ])

op_xor(m, x, y) ==
    Done([ m EXCEPT !.reg = vf_reset(m, [ @ EXCEPT ![x] = Xor8(m.reg[x], m.reg[y]) ]) ])

op_reg_add(m, x, y) ==
    LET a == m.reg[x]
        b == m.reg[y]
        sum == a + b
        vf == IF sum > 255 THEN 1 ELSE 0
    IN Done([ m EXCEPT !.reg = [ [ @ EXCEPT ![x] = sum % 256 ] EXCEPT ![15] = vf ] ])

\* faulty variant of op_reg_sub: equal operands count as a borrow
op_reg_sub_strict_flag(m, x, y) ==
    LET a == m.reg[x]
        b == m.reg[y]
        vf == IF b < a THEN 1 ELSE 0
    IN Done([ m EXCEPT !.reg = [ [ @ EXCEPT ![x] = WrappingSub8(a, b) ] EXCEPT ![15] = vf ] ])

op_reg_sub(m, x, y) ==
    LET a == m.reg[x]
        b == m.reg[y]
        vf == IF b <= a THEN 1 ELSE 0
    IN Done([ m EXCEPT !.reg = [ [ @ EXCEPT ![x] = WrappingSub8(a, b) ] EXCEPT ![15] = vf ] ])

\* faulty variant of op_shr: Vx is shifted in place whatever the shifting quirk
op_shr_ignores_quirk(m, x, y) ==
    LET r1 == m.reg
        vf == r1[x] % 2
    IN Done([ m EXCEPT !.reg = [ [ r1 EXCEPT ![x] = r1[x] \div 2 ] EXCEPT ![15] = vf ] ])

op_shr(m, x, y) ==
    LET r1 == IF ~m.quirks.shifting THEN [ m.reg EXCEPT ![x] = m.reg[y] ] ELSE m.reg
        vf == r1[x] % 2
    IN Done([ m EXCEPT !.reg = [ [ r1 EXCEPT ![x] = r1[x] \div 2 ] EXCEPT ![15] = vf ] ])

op_reg_sub_rev(m, x, y) ==
    LET a == m.reg[x]
        b == m.reg[y]
        vf == IF a <= b THEN 1 ELSE 0
    IN Done([ m EXCEPT !.reg = [ [ @ EXCEPT ![x] = WrappingSub8(b, a) ] EXCEPT ![15] = vf ] ])

op_shl(m, x, y) ==
    LET r1 == IF ~m.quirks.shifting THEN [ m.reg EXCEPT ![x] = m.reg[y] ] ELSE m.reg
        vf == r1[x] \div 128
    IN Done([ m EXCEPT !.reg = [ [ r1 EXCEPT ![x] = (r1[x] * 2) % 256 ] EXCEPT ![15] = vf ] ])

op_skip_reg_ne(m, x, y) ==
    Done(IF m.reg[x] # m.reg[y] THEN [ m EXCEPT !.pc = @ + 2 ] ELSE m)

op_mov_ptr(m, address) == Done([ m EXCEPT !.ri = address ])

op_reg_jmp(m, address) ==
    LET base == IF m.quirks.jumping
                THEN m.reg[(address \div 256) % 16]
                ELSE m.reg[0]
    IN Done([ m EXCEPT !.pc = base + address ])

\* rnd: the byte self.rng.gen::<u8>() returns
op_rand(m, x, value, rnd) == Done([ m EXCEPT !.reg[x] = And8(value, rnd) ])

\* source bit j (most significant first) of sprite row i
sprite_pixel(m, i, j) == Bit(m.memory[m.ri + i], 7 - j)

\* faulty variant of op_display: VF is set on a collision and otherwise left as it was
op_display_accumulates_vf(m, x, y, height) ==
    LET row == m.reg[y] % DISPLAY_HEIGHT
        col == m.reg[x] % DISPLAY_WIDTH
        ptr == m.ri
        drawn(i, j) == /\ i >= 0 /\ i < height /\ row + i < DISPLAY_HEIGHT
                       /\ j >= 0 /\ j < 8 /\ col + j < DISPLAY_WIDTH
        hit == \E i \in 0..(height - 1) : \E j \in 0..7 :
                  /\ drawn(i, j)
                  /\ m.video_memory[(row + i) * DISPLAY_WIDTH + col + j] = 1
                  /\ sprite_pixel(m, i, j) = 1
        video == [ idx \in DOMAIN m.video_memory |->
                     LET i == (idx \div DISPLAY_WIDTH) - row
                         j == (idx % DISPLAY_WIDTH) - col
                     IN IF drawn(i, j)
                        THEN (m.video_memory[idx] + sprite_pixel(m, i, j)) % 2
                        ELSE m.video_memory[idx] ]
    IN IF ptr + height > MEMORY_SIZE
       THEN Fail(m, "Panic")
       ELSE Done([ m EXCEPT !.reg[15] = IF hit THEN 1 ELSE @,
                            !.video_memory = video ])

\* faulty variant of op_display: pixels past the right or bottom edge wrap around
op_display_wraps_pixels(m, x, y, height) ==
    LET row == m.reg[y] % DISPLAY_HEIGHT
        col == m.reg[x] % DISPLAY_WIDTH
        ptr == m.ri
        drawn(i, j) == i >= 0 /\ i < height /\ j >= 0 /\ j < 8
        hit == \E i \in 0..(height - 1) : \E j \in 0..7 :
                  /\ m.video_memory[((row + i) % DISPLAY_HEIGHT) * DISPLAY_WIDTH
                                      + ((col + j) % DISPLAY_WIDTH)] = 1
                  /\ sprite_pixel(m, i, j) = 1
        video == [ idx \in DOMAIN m.video_memory |->
                     LET i == ((idx \div DISPLAY_WIDTH) - row + DISPLAY_HEIGHT) % DISPLAY_HEIGHT
                         j == ((idx % DISPLAY_WIDTH) - col + DISPLAY_WIDTH) % DISPLAY_WIDTH
                     IN IF drawn(i, j)
                        THEN (m.video_memory[idx] + sprite_pixel(m, i, j)) % 2
                        ELSE m.video_memory[idx] ]
    IN IF ptr + height > MEMORY_SIZE
       THEN Fail([ m EXCEPT !.reg[15] = 0 ], "Panic")
       ELSE Done([ m EXCEPT !.reg[15] = IF hit THEN 1 ELSE 0,
                            !.video_memory = video ])

\* the slice self.memory[ptr..ptr + height] is taken before the loops run: it
\* panics when it ends past the array. Every cell (r, c) is visited at most once.
op_display(m, x, y, height) ==
    LET row == m.reg[y] % DISPLAY_HEIGHT
        col == m.reg[x] % DISPLAY_WIDTH
        ptr == m.ri
        drawn(i, j) == /\ i >= 0 /\ i < height /\ row + i < DISPLAY_HEIGHT
                       /\ j >= 0 /\ j < 8 /\ col + j < DISPLAY_WIDTH
        hit == \E i \in 0..(height - 1) : \E j \in 0..7 :
                  /\ drawn(i, j)
                  /\ m.video_memory[(row + i) * DISPLAY_WIDTH + col + j] = 1
                  /\ sprite_pixel(m, i, j) = 1
        video == [ idx \in DOMAIN m.video_memory |->
                     LET i == (idx \div DISPLAY_WIDTH) - row
                         j == (idx % DISPLAY_WIDTH) - col
                     IN IF drawn(i, j)
                        THEN (m.video_memory[idx] + sprite_pixel(m, i, j)) % 2
                        ELSE m.video_memory[idx] ]
    IN IF ptr + height > MEMORY_SIZE
       THEN Fail([ m EXCEPT !.reg[15] = 0 ], "Panic")
       ELSE Done([ m EXCEPT !.reg[15] = IF hit THEN 1 ELSE 0,
                            !.video_memory = video ])

op_bdc(m, x) ==
    LET val == m.reg[x]
        ptr == m.ri
    IN IF ptr + 2 >= MEMORY_SIZE
       THEN Fail(m, "Panic")
       ELSE Done([ m EXCEPT !.memory = [ a \in DOMAIN @ |->
                     CASE a = ptr     -> (val \div 100) % 10
                       [] a = ptr + 1 -> (val \div 10) % 10
                       [] a = ptr + 2 -> val % 10
                       [] OTHER       -> @[a] ] ])

\* `self.ri += x as u16 + 1` cannot overflow: the loop before it has indexed
\* memory[ri + x], so ri + x < 4096
op_reg_dump(m, x) ==
    LET ptr == m.ri
    IN IF ptr + x >= MEMORY_SIZE
       THEN Fail(m, "Panic")
       ELSE Done([ m EXCEPT
                     !.memory = [ a \in DOMAIN @ |->
                                    IF a >= ptr /\ a <= ptr + x THEN m.reg[a - ptr] ELSE @[a] ],
                     !.ri = IF m.quirks.memory THEN @ + x + 1 ELSE @ ])

\* faulty variant of op_reg_load: the range read stops short of Vx
op_reg_load_excludes_vx(m, x) ==
    LET ptr == m.ri
    IN IF ptr + x >= MEMORY_SIZE
       THEN Fail(m, "Panic")
       ELSE Done([ m EXCEPT
                     !.reg = [ i \in DOMAIN @ |-> IF i < x THEN m.memory[ptr + i] ELSE @[i] ],
                     !.ri = IF m.quirks.memory THEN @ + x + 1 ELSE @ ])

op_reg_load(m, x) ==
    LET ptr == m.ri
    IN IF ptr + x >= MEMORY_SIZE
       THEN Fail(m, "Panic")
       ELSE Done([ m EXCEPT
                     !.reg = [ i \in DOMAIN @ |-> IF i <= x THEN m.memory[ptr + i] ELSE @[i] ],
                     !.ri = IF m.quirks.memory THEN @ + x + 1 ELSE @ ])

\* checked: the build traps u16 overflow (debug profile) instead of wrapping
op_ptr_add(m, x, checked) ==
    LET val == m.reg[x]
    IN IF m.ri + val > 65535 /\ checked
       THEN Fail(m, "Panic")
       ELSE Done([ m EXCEPT !.ri = (@ + val) % 65536 ])

op_mov_font_addr(m, x) ==
    LET val == m.reg[x]
    IN Done([ m EXCEPT !.ri = FONT_BASE_ADDRESS + val * 5 ])

op_set_delay(m, x) == Done([ m EXCEPT !.dt = m.reg[x] ])

op_set_sound(m, x) == Done([ m EXCEPT !.st = m.reg[x] ])

op_dump_delay(m, x) == Done([ m EXCEPT !.reg[x] = m.dt ])

op_skip_key_eq(m, x) ==
    IF m.reg[x] >= KEYPAD_SIZE
    THEN Fail(m, "Panic")
    ELSE Done(IF m.keypad[m.reg[x]] THEN [ m EXCEPT !.pc = @ + 2 ] ELSE m)

op_skip_key_ne(m, x) ==
    IF m.reg[x] >= KEYPAD_SIZE
    THEN Fail(m, "Panic")
    ELSE Done(IF ~m.keypad[m.reg[x]] THEN [ m EXCEPT !.pc = @ + 2 ] ELSE m)

\* faulty variant of first_pressed: the search runs from key F downwards
first_pressed_highest(keypad) ==
    IF \E k \in DOMAIN keypad : keypad[k]
    THEN CHOOSE k \in DOMAIN keypad :
            keypad[k] /\ \A k2 \in DOMAIN keypad : keypad[k2] => k >= k2
    ELSE -1

\* keypad.iter().enumerate().find(|&(_, is_pressed)| *is_pressed)
first_pressed(keypad) ==
    IF \E k \in DOMAIN keypad : keypad[k]
    THEN CHOOSE k \in DOMAIN keypad :
            keypad[k] /\ \A k2 \in DOMAIN keypad : keypad[k2] => k <= k2
    ELSE -1

\* faulty variant of op_wait_key: the pressed key is written at once, no release awaited
op_wait_key_no_release(m, x) ==
    LET found == first_pressed(m.keypad)
    IN IF found >= 0
       THEN Done([ m EXCEPT !.reg[x] = found ])
       ELSE Done([ m EXCEPT !.pc = @ - 2 ])

\* faulty variant of op_wait_key: pc is rewound only when a key is latched or found
op_wait_key_no_rewind(m, x) ==
    LET val == m.memory[KB_WAIT_KEYCODE_ADDRESS]
        is_pressed == (val \div 128) = 1
        key_code == val % 16
        found == first_pressed(m.keypad)
    IN IF is_pressed /\ ~m.keypad[key_code]
       THEN Done([ m EXCEPT !.reg[x] = key_code,
                            !.memory[KB_WAIT_KEYCODE_ADDRESS] = 0 ])
       ELSE IF ~is_pressed /\ found >= 0
       THEN Done([ m EXCEPT !.memory[KB_WAIT_KEYCODE_ADDRESS] = 128 + found,
                            !.pc = @ - 2 ])
       ELSE IF is_pressed THEN Done([ m EXCEPT !.pc = @ - 2 ])
       ELSE Done(m)

op_wait_key(m, x) ==
    LET val == m.memory[KB_WAIT_KEYCODE_ADDRESS]
        is_pressed == (val \div 128) = 1
        key_code == val % 16
        found == first_pressed(m.keypad)
    IN IF is_pressed /\ ~m.keypad[key_code]
       THEN Done([ m EXCEPT !.reg[x] = key_code,
                            !.memory[KB_WAIT_KEYCODE_ADDRESS] = 0 ])
       ELSE IF ~is_pressed /\ found >= 0
       THEN Done([ m EXCEPT !.memory[KB_WAIT_KEYCODE_ADDRESS] = 128 + found,
                            !.pc = @ - 2 ])
       ELSE Done([ m EXCEPT !.pc = @ - 2 ])

(***************************************************************************)
(* Chip8::teak: fetch, advance pc, dispatch                                *)
(***************************************************************************)
dispatch(m, instr, rnd, checked, mapped) ==
    LET nnn == instr.nnn
        nn  == instr.nn
        n   == instr.n
        x   == instr.x
        y   == instr.y
        h   == instr.header
    IN CASE h = 0 -> ( CASE nnn = 224 -> op_clear_screen(m)
                         [] nnn = 238 -> op_return(m, mapped)
                         [] OTHER     -> Done(m) )
         [] h = 1  -> op_jmp(m, nnn)
         [] h = 2  -> op_call(m, nnn, mapped)
         [] h = 3  -> op_skip_eq(m, x, nn)
         [] h = 4  -> op_skip_ne(m, x, nn)
         [] h = 5  -> op_skip_reg_eq(m, x, y)
         [] h = 6  -> op_mov(m, x, nn)
         [] h = 7  -> op_add(m, x, nn)
         [] h = 8  -> ( CASE n = 0  -> op_reg_mov(m, x, y)
                          [] n = 1  -> op_or(m, x, y)
                          [] n = 2  -> op_and(m, x, y)
                          [] n = 3  -> op_xor(m, x, y)
                          [] n = 4  -> op_reg_add(m, x, y)
                          [] n = 5  -> op_reg_sub(m, x, y)
                          [] n = 6  -> op_shr(m, x, y)
                          [] n = 7  -> op_reg_sub_rev(m, x, y)
                          [] n = 14 -> op_shl(m, x, y)
                          [] OTHER  -> Fail(m, "UnknownInstruction") )
         [] h = 9  -> op_skip_reg_ne(m, x, y)
         [] h = 10 -> op_mov_ptr(m, nnn)
         [] h = 11 -> op_reg_jmp(m, nnn)
         [] h = 12 -> op_rand(m, x, nn, rnd)
         [] h = 13 -> op_display(m, x, y, n)
         [] h = 14 -> ( CASE nn = 158 -> op_skip_key_eq(m, x)
                          [] nn = 161 -> op_skip_key_ne(m, x)
                          [] OTHER    -> Fail(m, "UnknownInstruction") )
         [] h = 15 -> ( CASE nn = 7   -> op_dump_delay(m, x)
                          [] nn = 10  -> op_wait_key(m, x)
                          [] nn = 21  -> op_set_delay(m, x)
                          [] nn = 24  -> op_set_sound(m, x)
                          [] nn = 30  -> op_ptr_add(m, x, checked)
                          [] nn = 41  -> op_mov_font_addr(m, x)
                          [] nn = 51  -> op_bdc(m, x)
                          [] nn = 85  -> op_reg_dump(m, x)
                          [] nn = 101 -> op_reg_load(m, x)
                          [] OTHER    -> Fail(m, "UnknownInstruction") )
         [] OTHER  -> Fail(m, "UnknownInstruction")

\* the instruction at pc; memory[pc] and memory[pc + 1] must both exist
fetch(m) == with_bytes(m.memory[m.pc], m.memory[m.pc + 1])

\* faulty variant of teak: pc is advanced after a successful dispatch only
teak_advances_on_success(m, rnd, checked, mapped) ==
    IF m.pc + 1 >= MEMORY_SIZE
    THEN Fail(m, "Panic")
    ELSE LET r == dispatch([ m EXCEPT !.pc = @ + 2 ], fetch(m), rnd, checked, mapped)
         IN IF r.res = "Ok" THEN r ELSE Fail([ r.m EXCEPT !.pc = m.pc ], r.res)

teak(m, rnd, checked, mapped) ==
    IF m.pc + 1 >= MEMORY_SIZE
    THEN Fail(m, "Panic")
    ELSE dispatch([ m EXCEPT !.pc = @ + 2 ], fetch(m), rnd, checked, mapped)

(***************************************************************************)
(* Inputs: the programs run, the quirk bundles, the keys the host presses  *)
(* and the bytes the random source yields                                  *)
(***************************************************************************)
\* 200: LD V1,77   202: LD V1,K   204: JP 204
ROM_KEY == << 97, 119,  241, 10,  18, 4 >>

\* 200: CALL 206   202: JP 202    204: JP 204     206: LD I,010
\* 208: LD V0,02   20A: LD V1,04  20C: LD [I],V1  20E: RET
ROM_STACK == << 34, 6,  18, 2,  18, 4,  160, 16,  96, 2,  97, 4,  241, 85,  0, 238 >>

\* 200: JP FFF
ROM_JUMP == << 31, 255 >>

\* 200: LD I,FFF   202: LD [I],V1
ROM_INDEX == << 175, 255,  241, 85 >>

\* 200: LD VF,2A   202: LD V1,05   204: LD V2,V1   206: LD V3,DT
\* 208: LD I,200   20A: LD V2,[I]  20C: LD VF,V0   20E: LD VF,[I]
\* 210: LD VF,DT   212: LD V4,K    214: LD VF,K    216: JP 216
ROM_LOAD == << 111, 42,  97, 5,  130, 16,  243, 7,  162, 0,  242, 101,
               143, 0,  255, 101,  255, 7,  244, 10,  255, 10,  18, 22 >>

\* 200: RET (sp = 0)   202: CALL 206   204: JP 204
\* 206 + 4(k-1), k = 1..15: CALL 206 + 4k ; RET     (nesting level k)
\* 242: CALL 242 (the 17th call) ; 244: RET          (nesting level 16)
ROM_CHAIN ==
    << 0, 238,  34, 6,  18, 4,  34, 10,  0, 238,  34, 14,
       0, 238,  34, 18,  0, 238,  34, 22,  0, 238,  34, 26,
       0, 238,  34, 30,  0, 238,  34, 34,  0, 238,  34, 38,
       0, 238,  34, 42,  0, 238,  34, 46,  0, 238,  34, 50,
       0, 238,  34, 54,  0, 238,  34, 58,  0, 238,  34, 62,
       0, 238,  34, 66,  0, 238,  34, 66,  0, 238 >>

ROMS == { ROM_KEY, ROM_STACK, ROM_JUMP, ROM_INDEX, ROM_LOAD, ROM_CHAIN }

QUIRKS ==
    { DefaultQuirks,
      [ vf_reset |-> FALSE, memory |-> TRUE, shifting |-> FALSE, jumping |-> TRUE ] }

KeyCodes == { 5, 15 }

RandBytes == { 85, 255 }

(***************************************************************************)
(* State                                                                   *)
(***************************************************************************)
VARIABLES
    reg, ri, dt, st, sp, pc, memory, video_memory, keypad, state, rom, quirks,
    result,   \* what the last call returned: "None" for a call returning ()
    last,     \* the last public operation called, with its argument
    alt,      \* the separate-array machine, driven by the same calls
    pushed    \* the return addresses Call steps pushed and no Return step popped yet

vars == << reg, ri, dt, st, sp, pc, memory, video_memory, keypad, state, rom,
           quirks, result, last, alt, pushed >>

\* the Chip8 struct
Self ==
    [ reg |-> reg, ri |-> ri, dt |-> dt, st |-> st, sp |-> sp, pc |-> pc,
      memory |-> memory, video_memory |-> video_memory, keypad |-> keypad,
      state |-> state, rom |-> rom, quirks |-> quirks ]

Store(m) ==
    /\ reg' = m.reg
    /\ ri' = m.ri
    /\ dt' = m.dt
    /\ st' = m.st
    /\ sp' = m.sp
    /\ pc' = m.pc
    /\ memory' = m.memory
    /\ video_memory' = m.video_memory
    /\ keypad' = m.keypad
    /\ state' = m.state
    /\ rom' = m.rom
    /\ quirks' = m.quirks

\* the fields of the separate-array machine beside those of Chip8
AltFields == { "stack", "res" }

AltOf(m, stack, res) ==
    [ f \in DOMAIN m \cup AltFields |->
        CASE f = "stack" -> stack
          [] f = "res"   -> res
          [] OTHER       -> m[f] ]

\* the separate-array machine after a unit operation took it to m2 (dead once panicked)
AltCall(m2) ==
    IF alt.res = "Panic" THEN alt ELSE AltOf(m2, alt.stack, "None")

AltTeak(rnd, checked) ==
    IF alt.res = "Panic" THEN alt
    ELSE LET r == teak(alt, rnd, checked, FALSE)
         IN AltOf(r.m, r.m.stack, r.res)

Init ==
    \E r \in ROMS, q \in QUIRKS :
        LET c == with_rom(r, q)
        IN /\ c.res = "Ok"
           /\ reg = c.m.reg
           /\ ri = c.m.ri
           /\ dt = c.m.dt
           /\ st = c.m.st
           /\ sp = c.m.sp
           /\ pc = c.m.pc
           /\ memory = c.m.memory
           /\ video_memory = c.m.video_memory
           /\ keypad = c.m.keypad
           /\ state = c.m.state
           /\ rom = c.m.rom
           /\ quirks = c.m.quirks
           /\ result = "None"
           /\ last = [ op |-> "with_rom", arg |-> 0 ]
           /\ alt = AltOf(c.m, [ i \in 0..(STACK_SIZE - 1) |-> 0 ], "None")
           /\ pushed = << >>

\* the opcode teak() is about to fetch; -1 when the fetch is out of bounds
Opcode(m) ==
    IF m.pc + 1 >= MEMORY_SIZE THEN -1
    ELSE m.memory[m.pc] * 256 + m.memory[m.pc + 1]

IsCall(op) == op >= 0 /\ op \div 4096 = 2

IsReturn(op) == op = 238

\* the record of pushes and pops after a step of opcode op returned res
Pushed(op, res) ==
    CASE res = "Ok" /\ IsCall(op)   -> Append(pushed, (pc + 2) % 65536)
      [] res = "Ok" /\ IsReturn(op) -> SubSeq(pushed, 1, Len(pushed) - 1)
      [] OTHER                      -> pushed

\* a panic aborts the process: nothing is called afterwards
Alive == result # "Panic"

\* the bytes the random source can matter for: only Cxnn draws one
RandChoices == IF Opcode(Self) \div 4096 = 12 THEN RandBytes ELSE { 0 }

Teak ==
    /\ Alive
    /\ \E rnd \in RandChoices, checked \in BOOLEAN :
          LET r == teak(Self, rnd, checked, TRUE)
          IN /\ Store(r.m)
             /\ result' = r.res
             /\ alt' = AltTeak(rnd, checked)
             /\ pushed' = Pushed(Opcode(Self), r.res)
    /\ last' = [ op |-> "teak", arg |-> Opcode(Self) ]

OnTimer ==
    /\ Alive
    /\ Store(on_timer(Self))
    /\ result' = "None"
    /\ last' = [ op |-> "on_timer", arg |-> 0 ]
    /\ alt' = AltCall(on_timer(alt))
    /\ pushed' = pushed

KeyDown ==
    /\ Alive
    /\ \E code \in KeyCodes :
          /\ Store(key_down(Self, code))
          /\ last' = [ op |-> "key_down", arg |-> code ]
          /\ alt' = AltCall(key_down(alt, code))
    /\ result' = "None"
    /\ pushed' = pushed

KeyUp ==
    /\ Alive
    /\ \E code \in KeyCodes :
          /\ Store(key_up(Self, code))
          /\ last' = [ op |-> "key_up", arg |-> code ]
          /\ alt' = AltCall(key_up(alt, code))
    /\ result' = "None"
    /\ pushed' = pushed

ToggleExecution ==
    /\ Alive
    /\ Store(toggle_execution(Self))
    /\ result' = "None"
    /\ last' = [ op |-> "toggle_execution", arg |-> 0 ]
    /\ alt' = AltCall(toggle_execution(alt))
    /\ pushed' = pushed

Terminate ==
    /\ Alive
    /\ Store(terminate(Self))
    /\ result' = "None"
    /\ last' = [ op |-> "terminate", arg |-> 0 ]
    /\ alt' = AltCall(terminate(alt))
    /\ pushed' = pushed

Reset ==
    /\ Alive
    /\ Store(reset(Self))
    /\ result' = "None"
    /\ last' = [ op |-> "reset", arg |-> 0 ]
    /\ alt' = AltOf(reset(alt), [ i \in 0..(STACK_SIZE - 1) |-> 0 ], "None")
    /\ pushed' = << >>

Next ==
    \/ Teak
    \/ OnTimer
    \/ KeyDown
    \/ KeyUp
    \/ ToggleExecution
    \/ Terminate
    \/ Reset

Spec == Init /\ [][Next]_vars

(***************************************************************************)
(* Vocabulary of the properties                                            *)
(***************************************************************************)
\* the fields of the machine a caller can observe, as one tuple
machine == << reg, ri, dt, st, sp, pc, memory, video_memory, keypad, state >>

Stepped == last.op = "teak"

\* opcode class tests (op = -1: no opcode was fetched)
Header(op) == op \div 4096

OpX(op) == (op \div 256) % 16

IsWaitKey(op) == op >= 0 /\ Header(op) = 15 /\ op % 256 = 10

NoKeyPressed(kp) == \A k \in DOMAIN kp : ~kp[k]

(***************************************************************************)
(* C1: step() is a no-op unless the execution state is Running: called     *)
(* while Paused or Terminated it returns success and leaves pc, registers, *)
(* I, timers, sp, memory, framebuffer, keypad and state unchanged.         *)
(* teak() never reads self.state: it fetches and executes whatever the     *)
(* state is, so this is violated.                                          *)
(***************************************************************************)
C1_StepNoOpUnlessRunning ==
    [][ (last'.op = "teak" /\ state # "Running")
            => (result' = "Ok" /\ machine' = machine) ]_vars

(***************************************************************************)
(* C2 as claimed: once the state is Terminated it is Terminated after any  *)
(* public operation, reset included.                                       *)
(***************************************************************************)
C2_TerminatedIsTerminal ==
    [][ state = "Terminated" => state' = "Terminated" ]_vars

(***************************************************************************)
(* C2 amended: once the state is Terminated it is still Terminated after   *)
(* step, on_timer, key_down, key_up, toggle_execution and terminate;       *)
(* reset() alone leaves Terminated, and it always ends in Running.         *)
(***************************************************************************)
C2_TerminatedUntilReset ==
    [][ /\ (state = "Terminated" /\ last'.op # "reset") => state' = "Terminated"
        /\ last'.op = "reset" => state' = "Running" ]_vars

\* an operation other than reset and terminate was called on a Terminated machine
C2_Witness ==
    /\ state = "Terminated"
    /\ last.op \in { "teak", "on_timer", "key_down", "key_up", "toggle_execution" }

(***************************************************************************)
(* Key wait (Fx0A)                                                         *)
(***************************************************************************)
\* one more step() of machine m (no wait-key step draws a random byte or adds to I)
StepOf(m) == teak(m, 0, TRUE, TRUE)

\* the bit-7 flag of the latch byte memory[KB_WAIT_KEYCODE_ADDRESS]
Latched(m) == m.memory[KB_WAIT_KEYCODE_ADDRESS] >= 128

\* the last call was a step() of the wait-key opcode pc still points at,
\* and no key is pressed: the machine is stalled on Load Vx,K
Stalled ==
    /\ Alive
    /\ Stepped
    /\ result = "Ok"
    /\ IsWaitKey(Opcode(Self))
    /\ last.arg = Opcode(Self)
    /\ NoKeyPressed(keypad)

(***************************************************************************)
(* C3 as claimed: stalled on Load Vx,K with no key pressed, the host calls *)
(* key_down(code); the very next step() writes Vx = code and leaves pc     *)
(* past the wait-key opcode.                                               *)
(***************************************************************************)
C3_KeyDownCompletesWait ==
    [][ (Stalled /\ last'.op = "key_down")
            => LET s == StepOf(Self')
               IN /\ s.res = "Ok"
                  /\ s.m.reg[OpX(Opcode(Self))] = last'.arg
                  /\ s.m.pc = pc + 2 ]_vars

(***************************************************************************)
(* C3 amended: stalled on Load Vx,K with no key pressed, the host calls    *)
(* key_down(code); the very next step() only records code in the latch     *)
(* (memory[0] = 0x80 | code) and rewinds pc, Vx unchanged; a further       *)
(* step() while code is held changes nothing; the first step() after       *)
(* key_up(code) writes Vx = code, clears the latch and leaves pc past the  *)
(* wait-key opcode.                                                        *)
(***************************************************************************)
C3_KeyReleaseCompletesWait ==
    [][ (Stalled /\ last'.op = "key_down")
            => LET code == last'.arg
                   x    == OpX(Opcode(Self))
                   s1   == StepOf(Self')
                   s2   == StepOf(s1.m)
                   s3   == StepOf(key_up(s2.m, code))
               IN /\ s1.res = "Ok"
                  /\ s1.m = [ Self' EXCEPT !.memory[KB_WAIT_KEYCODE_ADDRESS] = 128 + code ]
                  /\ s2.res = "Ok"
                  /\ s2.m = s1.m
                  /\ s3.res = "Ok"
                  /\ s3.m = [ key_up(Self', code) EXCEPT !.reg[x] = code, !.pc = pc + 2,
                                                       !.memory[KB_WAIT_KEYCODE_ADDRESS] = 0 ] ]_vars

\* a wait-key step has just completed: a pressed-then-released key is in Vx,
\* the latch is clear again and pc is past the opcode
C3_Witness ==
    /\ Stepped
    /\ result = "Ok"
    /\ IsWaitKey(last.arg)
    /\ pc >= 2
    /\ memory[pc - 2] * 256 + memory[pc - 1] = last.arg
    /\ reg[OpX(last.arg)] \in KeyCodes
    /\ ~Latched(Self)
    /\ NoKeyPressed(keypad)

(***************************************************************************)
(* C4 as claimed: if no key is pressed when Load Vx,K is stepped, the step *)
(* returns success and pc, the registers, I, sp, the timers and the        *)
(* framebuffer are as before it.                                           *)
(***************************************************************************)
C4_NoKeyStalls ==
    [][ (last'.op = "teak" /\ IsWaitKey(Opcode(Self)) /\ NoKeyPressed(keypad))
            => /\ result' = "Ok"
               /\ << pc, reg, ri, sp, dt, st, video_memory >>'
                    = << pc, reg, ri, sp, dt, st, video_memory >> ]_vars

(***************************************************************************)
(* C4 amended: if no key is pressed and the latch is clear (bit 7 of       *)
(* memory[0] is 0) when Load Vx,K is stepped, the step returns success and *)
(* changes nothing at all: pc after it equals pc before it, and the        *)
(* registers, I, sp, the timers, the framebuffer, memory, keypad and       *)
(* execution state are unchanged, so any number of repeated steps are. With*)
(* the latch set and its key released, the step completes the wait instead.*)
(***************************************************************************)
C4_NoKeyNoLatchStalls ==
    [][ (last'.op = "teak" /\ IsWaitKey(Opcode(Self)) /\ NoKeyPressed(keypad))
            => /\ result' = "Ok"
               /\ ~Latched(Self) => machine' = machine
               /\ Latched(Self) => pc' = pc + 2 ]_vars

\* a wait-key step with no key pressed and the latch clear has just rewound pc
C4_Witness ==
    /\ Stalled
    /\ ~Latched(Self)

(***************************************************************************)
(* C5: reset() round-trip: after any sequence of step, on_timer, key_down, *)
(* key_up, toggle_execution and terminate calls, reset() yields a full     *)
(* state (memory, registers, I, timers, sp, pc, framebuffer, keypad,       *)
(* execution state) equal to the state right after construction with the   *)
(* same ROM and quirks; reset() applied twice equals reset() applied once. *)
(***************************************************************************)
C5_ResetRoundTrip ==
    [][ last'.op = "reset"
            => /\ Self' = with_rom(rom, quirks).m
               /\ reset(Self') = Self' ]_vars

\* reset() has just run and the machine is as constructed
C5_Witness ==
    /\ last.op = "reset"
    /\ Self = with_rom(rom, quirks).m

(***************************************************************************)
(* Register VF                                                             *)
(***************************************************************************)
\* Load imm (6xnn), Load reg (8xy0), Load Vx,DT (Fx07), Load Vx,K (Fx0A),
\* Register load (Fx65)
IsPlainLoad(op) ==
    /\ op >= 0
    /\ \/ Header(op) = 6
       \/ Header(op) = 8 /\ op % 16 = 0
       \/ Header(op) = 15 /\ op % 256 \in { 7, 10, 101 }

\* instructions whose flag output goes to VF: add/sub/shift (8xy4 5 6 7 E),
\* or/and/xor (8xy1 2 3) under the vf_reset quirk, draw (Dxyn)
IsFlagInstr(op, q) ==
    /\ op >= 0
    /\ \/ Header(op) = 8 /\ op % 16 \in { 4, 5, 6, 7, 14 }
       \/ Header(op) = 8 /\ op % 16 \in { 1, 2, 3 } /\ q.vf_reset
       \/ Header(op) = 13

\* instructions that write the register(s) their x field names: 6xnn, 7xnn,
\* 8xy_, Cxnn, Fx07, Fx0A, Fx65
WritesVx(op) ==
    /\ op >= 0
    /\ \/ Header(op) \in { 6, 7, 8, 12 }
       \/ Header(op) = 15 /\ op % 256 \in { 7, 10, 101 }

(***************************************************************************)
(* C6 as claimed: for every operand value the plain loads (6xnn, 8xy0,     *)
(* Fx07, Fx0A, Fx65) leave VF unchanged; VF changes only as the flag       *)
(* output of arithmetic, shift, bitwise (vf_reset) and draw instructions.  *)
(***************************************************************************)
C6_LoadsNeverWriteVF ==
    [][ last'.op = "teak"
            => /\ IsPlainLoad(Opcode(Self)) => reg'[15] = reg[15]
               /\ reg'[15] # reg[15] => IsFlagInstr(Opcode(Self), quirks) ]_vars

(***************************************************************************)
(* C6 amended: a plain load (6xnn, 8xy0, Fx07, Fx0A, Fx65) whose x field   *)
(* is not 0xF leaves VF unchanged; with x = 0xF it writes VF like any      *)
(* other register. A step changes VF only as the flag output of an         *)
(* arithmetic, shift, bitwise (vf_reset) or draw instruction, or as the    *)
(* destination register of an instruction whose x field is 0xF.            *)
(***************************************************************************)
C6_LoadsWriteVFOnlyAsVx ==
    [][ last'.op = "teak"
            => /\ (IsPlainLoad(Opcode(Self)) /\ OpX(Opcode(Self)) # 15)
                     => reg'[15] = reg[15]
               /\ reg'[15] # reg[15]
                     => \/ IsFlagInstr(Opcode(Self), quirks)
                        \/ WritesVx(Opcode(Self)) /\ OpX(Opcode(Self)) = 15 ]_vars

\* a plain load into a register other than VF has run while VF held a value
C6_Witness ==
    /\ Stepped
    /\ result = "Ok"
    /\ IsPlainLoad(last.arg)
    /\ OpX(last.arg) # 15
    /\ reg[OpX(last.arg)] # 0
    /\ reg[15] # 0

(***************************************************************************)
(* Index-addressed memory accesses                                         *)
(***************************************************************************)
\* Draw sprite (Dxyn), Store BCD (Fx33), Register dump (Fx55), Register load (Fx65)
IsIndexed(op) ==
    /\ op >= 0
    /\ \/ Header(op) = 13
       \/ Header(op) = 15 /\ op % 256 \in { 51, 85, 101 }

\* the addresses the instruction op indexes self.memory with, given I = m.ri:
\* memory[ptr..ptr + height], memory[ptr .. ptr + 2], memory[ptr + offset], offset in 0..=x
IndexAddresses(m, op) ==
    CASE Header(op) = 13 -> m.ri .. (m.ri + (op % 16) - 1)
      [] op % 256 = 51   -> m.ri .. (m.ri + 2)
      [] OTHER           -> m.ri .. (m.ri + OpX(op))

(***************************************************************************)
(* C7: index-addressed memory accesses stay in bounds: for every reachable *)
(* value of I, every address read or written by Draw sprite, Store BCD,    *)
(* Register dump and Register load lies in 0..4095 (I wrapped to 12 bits), *)
(* so none of these instructions accesses memory outside the array.        *)
(* The handlers index memory with I as it is; past the end the access      *)
(* panics.                                                                 *)
(***************************************************************************)
C7_IndexAccessInBounds ==
    [][ (last'.op = "teak" /\ IsIndexed(Opcode(Self)))
            => /\ IndexAddresses(Self, Opcode(Self)) \subseteq 0..(MEMORY_SIZE - 1)
               /\ result' # "Panic" ]_vars

(***************************************************************************)
(* C8: step() is total: in every reachable state it returns success or one *)
(* of UnknownInstruction, StackOverflow, EmptyStack; the fetch addresses   *)
(* pc and pc + 1 are always within 0..4095.                                *)
(* A jump (or running off the end of memory) leaves pc where the fetch     *)
(* panics.                                                                 *)
(***************************************************************************)
C8_StepIsTotal ==
    [][ last'.op = "teak"
            => /\ pc + 1 <= MEMORY_SIZE - 1
               /\ result' \in { "Ok", "UnknownInstruction", "StackOverflow", "EmptyStack" } ]_vars

(***************************************************************************)
(* C9: the memory-mapped return-address stack is behaviourally equivalent  *)
(* to a separate 16-entry array: both machines show the same pc,           *)
(* registers, I, sp, framebuffer and step() results at every step.         *)
(* A program can address memory[0x010..0x02F] through I and so overwrite   *)
(* (or read) return addresses, which the separate array does not allow.    *)
(***************************************************************************)
C9_StackEquivalent ==
    /\ alt.pc = pc
    /\ alt.reg = reg
    /\ alt.ri = ri
    /\ alt.sp = sp
    /\ alt.video_memory = video_memory
    /\ alt.res = result

(***************************************************************************)
(* Call stack                                                              *)
(***************************************************************************)
\* the 16-bit entry i (0-based) of the memory-mapped stack
StackEntry(m, i) ==
    m.memory[STACK_BASE_ADDRESS + i * 2] * 256 + m.memory[STACK_BASE_ADDRESS + i * 2 + 1]

\* the sp entries in use are exactly the addresses seq, oldest first
StackHolds(m, seq) ==
    /\ Len(seq) = m.sp
    /\ \A i \in 1..Len(seq) : StackEntry(m, i - 1) = seq[i]

(***************************************************************************)
(* C10: the call stack is strictly LIFO: starting from sp = 0, N <= 16     *)
(* pushes (Call) followed by N pops (Return) return the pushed 16-bit      *)
(* addresses in reverse insertion order; a 17th push fails with            *)
(* StackOverflow and a pop with sp = 0 fails with EmptyStack.              *)
(* Stated per step: while the stack holds the addresses pushed and not yet *)
(* popped (as it does at sp = 0), a Call with sp < 16 adds its return      *)
(* address on top and a Return hands back the most recent one and removes  *)
(* it, so the stack again holds the pushed addresses.                      *)
(***************************************************************************)
C10_StackIsLifo ==
    [][ last'.op = "teak"
            => LET op == Opcode(Self)
               IN /\ (IsCall(op) /\ sp = STACK_SIZE)
                        => result' = "StackOverflow" /\ sp' = sp /\ pushed' = pushed
                  /\ (IsReturn(op) /\ sp = 0)
                        => result' = "EmptyStack" /\ sp' = sp
                  /\ (IsCall(op) /\ sp < STACK_SIZE /\ StackHolds(Self, pushed))
                        => /\ result' = "Ok"
                           /\ sp' = sp + 1
                           /\ pushed' = Append(pushed, pc + 2)
                           /\ StackHolds(Self', pushed')
                  /\ (IsReturn(op) /\ sp > 0 /\ StackHolds(Self, pushed))
                        => /\ result' = "Ok"
                           /\ sp' = sp - 1
                           /\ pc' = pushed[Len(pushed)]
                           /\ StackHolds(Self', pushed') ]_vars

\* ROM_CHAIN has nested 16 calls, failed the 17th and returned 16 times: the last
\* Return popped the first address pushed and emptied the stack
C10_Witness ==
    /\ rom = ROM_CHAIN
    /\ Stepped
    /\ IsReturn(last.arg)
    /\ result = "Ok"
    /\ sp = 0
    /\ pc = PROGRAM_BASE_ADDRESS + 4
    /\ pushed = << >>

(***************************************************************************)
(* C11: in every reachable state the stack pointer satisfies               *)
(* 0 <= sp <= 16, whatever ROM runs and whatever operations are applied,   *)
(* steps failing with StackOverflow or EmptyStack included.                *)
(***************************************************************************)
C11_StackPointerInRange == sp \in 0..STACK_SIZE

\* a Call was refused with the stack full: sp is at its upper limit
C11_Witness ==
    /\ Stepped
    /\ result = "StackOverflow"
    /\ sp = STACK_SIZE

(***************************************************************************)
(* Instruction decoding: one opcode of every header and sub-selector, run  *)
(* after a prefix that gives VA, I a value                                 *)
(***************************************************************************)
\* the headers teak() dispatches further on a sub-selector (nnn, n, nn, nn)
FamilyHeaders == { 0, 8, 14, 15 }

\* the x fields and low bytes of the opcodes decoded: every sub-selector of
\* the four families, nnn below and above 0FF for header 0
DecodeX(h) == IF h = 0 THEN { 0, 10 } ELSE { 10 }

DecodeNN(h) == IF h \in FamilyHeaders THEN 0..255 ELSE { 0, 78 }

OPCODES ==
    UNION { { h * 4096 + x * 256 + nn : x \in DecodeX(h), nn \in DecodeNN(h) } : h \in 0..15 }

\* 200: LD VA,07   202: LD I,300   204: the opcode
ROM_DECODE(op) == << 106, 7,  163, 0,  op \div 256, op % 256 >>

\* the machine as Chip8::with_rom(rom, quirks) returns it, nothing called yet
Constructed(r, q) ==
    \E c \in { with_rom(r, q) } :
       /\ c.res = "Ok"
       /\ reg = c.m.reg
       /\ ri = c.m.ri
       /\ dt = c.m.dt
       /\ st = c.m.st
       /\ sp = c.m.sp
       /\ pc = c.m.pc
       /\ memory = c.m.memory
       /\ video_memory = c.m.video_memory
       /\ keypad = c.m.keypad
       /\ state = c.m.state
       /\ rom = c.m.rom
       /\ quirks = c.m.quirks
       /\ result = "None"
       /\ last = [ op |-> "with_rom", arg |-> 0 ]
       /\ alt = AltOf(c.m, [ i \in 0..(STACK_SIZE - 1) |-> 0 ], "None")
       /\ pushed = << >>

InitDecode == \E op \in OPCODES, q \in QUIRKS : Constructed(ROM_DECODE(op), q)

\* pc is at an instruction of the ROM
InRom == pc >= PROGRAM_BASE_ADDRESS /\ pc < PROGRAM_BASE_ADDRESS + Len(rom)

\* step() while pc is inside the ROM
TeakInRom == InRom /\ Teak

SpecDecode == InitDecode /\ [][TeakInRom]_vars

\* the (header, sub-selector) combinations teak() has a handler for
HasHandler(op) ==
    /\ op >= 0
    /\ CASE Header(op) = 0  -> op % 4096 \in { 224, 238 }
         [] Header(op) = 8  -> op % 16 \in { 0, 1, 2, 3, 4, 5, 6, 7, 14 }
         [] Header(op) = 14 -> op % 256 \in { 158, 161 }
         [] Header(op) = 15 -> op % 256 \in { 7, 10, 21, 24, 30, 41, 51, 85, 101 }
         [] OTHER           -> TRUE

\* header 0 with nnn other than 0E0 and 0EE: a machine code routine call
IsMachineCodeCall(op) == op >= 0 /\ Header(op) = 0 /\ op % 4096 \notin { 224, 238 }

(***************************************************************************)
(* C12 as claimed: every 16-bit opcode either has a handler in the         *)
(* instruction table or makes step() return UnknownInstruction, the        *)
(* header-0 opcodes other than 00E0 and 00EE included.                     *)
(***************************************************************************)
C12_UnknownNeverSilent ==
    [][ last'.op = "teak"
            => (HasHandler(Opcode(Self)) \/ result' = "UnknownInstruction") ]_vars

(***************************************************************************)
(* C12 amended: step() returns UnknownInstruction exactly for the opcodes  *)
(* of headers 8, E, F whose sub-selector has no handler; a header-0 opcode *)
(* other than 00E0 and 00EE (machine code routine call) is accepted        *)
(* silently: step() returns success and only advances pc by 2.             *)
(***************************************************************************)
C12_UnknownExceptMachineCode ==
    [][ last'.op = "teak"
            => LET op == Opcode(Self)
               IN /\ result' = "UnknownInstruction"
                        <=> (~HasHandler(op) /\ ~IsMachineCodeCall(op))
                  /\ IsMachineCodeCall(op)
                        => /\ result' = "Ok"
                           /\ Self' = [ Self EXCEPT !.pc = @ + 2 ] ]_vars

\* a header-0 opcode other than 00E0 / 00EE has been stepped over
C12_Witness ==
    /\ Stepped
    /\ IsMachineCodeCall(last.arg)
    /\ last.arg # 0
    /\ result = "Ok"
    /\ pc = PROGRAM_BASE_ADDRESS + 6

(***************************************************************************)
(* C13: when step() returns UnknownInstruction, pc is the address of the   *)
(* offending opcode plus 2, the execution state is as before (Running      *)
(* stays Running) and registers, I, timers, sp, memory, framebuffer and    *)
(* keypad are unchanged by that step.                                      *)
(***************************************************************************)
C13_UnknownOnlyAdvancesPc ==
    [][ (last'.op = "teak" /\ result' = "UnknownInstruction")
            => /\ pc' = pc + 2
               /\ state = "Running" /\ state' = "Running"
               /\ << reg, ri, dt, st, sp, memory, video_memory, keypad >>'
                    = << reg, ri, dt, st, sp, memory, video_memory, keypad >> ]_vars

\* an opcode without handler was stepped with VA and I set
C13_Witness ==
    /\ Stepped
    /\ result = "UnknownInstruction"
    /\ ~HasHandler(last.arg)
    /\ pc = PROGRAM_BASE_ADDRESS + 6
    /\ reg[10] = 7
    /\ ri = 768
    /\ state = "Running"

(***************************************************************************)
(* C14: a failing stack operation changes nothing but pc: a Call stepped   *)
(* with sp = 16 returns StackOverflow and a Return stepped with sp = 0     *)
(* returns EmptyStack; in both cases sp, the 16 stack entries, registers,  *)
(* I, timers, framebuffer and execution state are unchanged (memory and    *)
(* keypad too) and pc is left at the failing opcode's address plus 2, not  *)
(* at the call target.                                                     *)
(***************************************************************************)
C14_FailedStackOpOnlyAdvancesPc ==
    [][ last'.op = "teak"
            => LET op == Opcode(Self)
               IN /\ (IsCall(op) /\ sp = STACK_SIZE) => result' = "StackOverflow"
                  /\ (IsReturn(op) /\ sp = 0) => result' = "EmptyStack"
                  /\ result' \in { "StackOverflow", "EmptyStack" }
                        => /\ Self' = [ Self EXCEPT !.pc = @ + 2 ]
                           /\ \A i \in 0..(STACK_SIZE - 1) :
                                 StackEntry(Self', i) = StackEntry(Self, i) ]_vars

\* the 17th nested Call of ROM_CHAIN (CALL 242 at 242) was refused: pc is past
\* the opcode, not at its target, and the 16 entries are those pushed
C14_Witness ==
    /\ Stepped
    /\ IsCall(last.arg)
    /\ result = "StackOverflow"
    /\ sp = STACK_SIZE
    /\ pc = PROGRAM_BASE_ADDRESS + 68
    /\ pc # last.arg % 4096
    /\ StackHolds(Self, pushed)

(***************************************************************************)
(* Construction: Chip8::with_rom called on ROMs of lengths around the      *)
(* limit MEMORY_SIZE - PROGRAM_BASE_ADDRESS; the call itself is the action *)
(***************************************************************************)
\* the ROM lengths tried: short ones, and those next to the limit 3584
LoadLengths == (0..60) \cup { 3583, 3584, 3585, 3586 }

\* a ROM of L bytes, none of them 0
ROM_FILL(L) == [ i \in 1..L |-> (i % 255) + 1 ]

\* before with_rom() has returned there is no machine: the variables hold the
\* values of its struct literal, rom and quirks the arguments it will be given
Unconstructed(r, q) ==
    [ reg |-> [ i \in 0..(REGISTERS_COUNT - 1) |-> 0 ],
      ri |-> 0,
      dt |-> 0,
      st |-> 0,
      sp |-> 0,
      pc |-> PROGRAM_BASE_ADDRESS,
      memory |-> [ a \in 0..(MEMORY_SIZE - 1) |-> 0 ],
      video_memory |-> [ i \in 0..(DISPLAY_HEIGHT * DISPLAY_WIDTH - 1) |-> 0 ],
      keypad |-> [ k \in 0..(KEYPAD_SIZE - 1) |-> FALSE ],
      state |-> "Paused",
      rom |-> r,
      quirks |-> q ]

InitLoad ==
    \E L \in LoadLengths, q \in QUIRKS :
        \E u \in { Unconstructed(ROM_FILL(L), q) } :
           /\ reg = u.reg
           /\ ri = u.ri
           /\ dt = u.dt
           /\ st = u.st
           /\ sp = u.sp
           /\ pc = u.pc
           /\ memory = u.memory
           /\ video_memory = u.video_memory
           /\ keypad = u.keypad
           /\ state = u.state
           /\ rom = u.rom
           /\ quirks = u.quirks
           /\ result = "None"
           /\ last = [ op |-> "load", arg |-> L ]
           /\ alt = AltOf(u, [ i \in 0..(STACK_SIZE - 1) |-> 0 ], "None")
           /\ pushed = << >>

\* Chip8::with_rom(rom, quirks): Ok(machine) or Err(RomTooBig(size))
WithRom ==
    /\ last.op = "load"
    /\ \E c \in { with_rom(rom, quirks) } :
          /\ result' = c.res
          /\ IF c.res = "Ok"
             THEN /\ Store(c.m)
                  /\ alt' = AltOf(c.m, [ i \in 0..(STACK_SIZE - 1) |-> 0 ], "None")
             ELSE /\ Store(Self)
                  /\ alt' = alt
    /\ last' = [ op |-> "with_rom", arg |-> Len(rom) ]
    /\ pushed' = pushed

SpecLoad == InitLoad /\ [][WithRom]_vars

\* the addresses of the font table and of the ROM image
FontRange == FONT_BASE_ADDRESS .. (FONT_BASE_ADDRESS + Len(FONT_SPRITES) - 1)

RomRange(r) == PROGRAM_BASE_ADDRESS .. (PROGRAM_BASE_ADDRESS + Len(r) - 1)

(***************************************************************************)
(* C15: with_rom succeeds iff the ROM length L satisfies                   *)
(* L <= 4096 - 0x200 (3584) and fails with RomTooBig(L) otherwise; on      *)
(* success memory[0x200 + i] is ROM byte i for every i < L, the font table *)
(* occupies memory[0x050..0x09F], all other memory is 0 and pc = 0x200.    *)
(***************************************************************************)
C15_ConstructLoadsRom ==
    [][ last'.op = "with_rom"
            => LET L == Len(rom)
               IN /\ result' = "Ok" <=> L <= 3584
                  /\ result' # "Ok"
                        => /\ result' = "RomTooBig"
                           /\ with_rom(rom, quirks).size = L
                  /\ result' = "Ok"
                        => /\ \A i \in 0..(L - 1) : memory'[512 + i] = rom[i + 1]
                           /\ FontRange = 80..159
                           /\ \A k \in 0..79 : memory'[80 + k] = FONT_SPRITES[k + 1]
                           /\ \A a \in (0..4095) \ (FontRange \cup RomRange(rom)) :
                                 memory'[a] = 0
                           /\ pc' = 512
                           /\ rom' = rom ]_vars

\* a ROM of exactly 3584 bytes was loaded: its last byte is the last byte of memory
C15_Witness ==
    /\ last.op = "with_rom"
    /\ result = "Ok"
    /\ Len(rom) = MEMORY_SIZE - PROGRAM_BASE_ADDRESS
    /\ memory[MEMORY_SIZE - 1] = rom[Len(rom)]
    /\ memory[MEMORY_SIZE - 1] # 0
    /\ memory[PROGRAM_BASE_ADDRESS - 1] = 0

(***************************************************************************)
(* Timers: programs that set the delay and sound counters, the host        *)
(* ticking them and changing the execution state meanwhile                 *)
(***************************************************************************)
\* the values << a, b >> given to the delay and the sound counter
TimerPairs == { << 0, 0 >>, << 1, 3 >>, << 3, 1 >>, << 255, 2 >> }

\* 200: LD V0,a   202: LD V1,b   204: LD DT,V0   206: LD ST,V1   208: JP 208
ROM_TIMER(a, b) == << 96, a,  97, b,  240, 21,  241, 24,  18, 8 >>

InitTimer == \E p \in TimerPairs : Constructed(ROM_TIMER(p[1], p[2]), DefaultQuirks)

NextTimer ==
    \/ TeakInRom
    \/ OnTimer
    \/ ToggleExecution
    \/ Terminate

SpecTimer == InitTimer /\ [][NextTimer]_vars

(***************************************************************************)
(* C16: on_timer() decrements the delay and sound counters by 1 each,      *)
(* saturating at 0: a counter at 0 stays 0, both counters are always in    *)
(* 0..255, and on_timer() changes nothing else (pc, registers, I, sp,      *)
(* memory, framebuffer, keypad, execution state), in whatever execution    *)
(* state it is called.                                                     *)
(***************************************************************************)
C16_TimersSaturate ==
    [][ /\ dt' \in 0..255
        /\ st' \in 0..255
        /\ last'.op = "on_timer"
              => /\ dt' = IF dt = 0 THEN 0 ELSE dt - 1
                 /\ st' = IF st = 0 THEN 0 ELSE st - 1
                 /\ << pc, reg, ri, sp, memory, video_memory, keypad, state >>'
                      = << pc, reg, ri, sp, memory, video_memory, keypad, state >> ]_vars

\* a tick on a Terminated machine kept the delay counter at 0 and took the sound
\* counter from 2 to 1
C16_Witness ==
    /\ last.op = "on_timer"
    /\ state = "Terminated"
    /\ reg[0] = 1
    /\ reg[1] = 3
    /\ dt = 0
    /\ st = 1

(***************************************************************************)
(* Register ALU: Vx and Vy loaded with operand values, then one of Add reg *)
(* (8xy4), Sub reg (8xy5), Shift right (8xy6), Sub reversed (8xy7), Shift  *)
(* left (8xyE)                                                             *)
(***************************************************************************)
\* operand values: both sides of every carry, borrow and shifted-out bit
AluValues == { 0, 1, 3, 4, 5, 128, 255 }

\* the register fields << x, y >>: plain, VF as destination, VF as source, x = y
AluRegs == { << 1, 2 >>, << 15, 2 >>, << 1, 15 >>, << 3, 3 >>, << 15, 15 >> }

\* the sub-selectors n of 8xyn
AluOps == { 4, 5, 6, 7, 14 }

\* 200: LD Vx,a   202: LD Vy,b   204: 8xyn   206: JP 206
ROM_ALU(x, y, a, b, n) == << 96 + x, a,  96 + y, b,  128 + x, y * 16 + n,  18, 6 >>

InitAlu ==
    \E r \in AluRegs, a \in AluValues, b \in AluValues, n \in AluOps, q \in QUIRKS :
        Constructed(ROM_ALU(r[1], r[2], a, b, n), q)

SpecAlu == InitAlu /\ [][TeakInRom]_vars

\* opcode 8xyn with n in ns
IsAlu(op, ns) == op >= 0 /\ Header(op) = 8 /\ op % 16 \in ns

OpY(op) == (op \div 16) % 16

(***************************************************************************)
(* C17: flag arithmetic of the register ALU, for all 8-bit Vx, Vy:         *)
(*   Add reg (8xy4): Vx = (Vx + Vy) mod 256, VF = 1 iff Vx + Vy > 255;     *)
(*   Sub reg (8xy5): Vx = (Vx - Vy) mod 256, VF = 1 iff Vy <= Vx;          *)
(*   Sub reversed (8xy7): Vx = (Vy - Vx) mod 256, VF = 1 iff Vx <= Vy;     *)
(* the flag is computed from the operand values before the instruction and *)
(* VF is assigned after Vx, so when x = 0xF the register ends holding the  *)
(* flag. No other register changes.                                        *)
(***************************************************************************)
C17_FlagArithmetic ==
    [][ (last'.op = "teak" /\ IsAlu(Opcode(Self), { 4, 5, 7 }))
            => LET n  == Opcode(Self) % 16
                   x  == OpX(Opcode(Self))
                   vx == reg[x]
                   vy == reg[OpY(Opcode(Self))]
                   value == CASE n = 4 -> (vx + vy) % 256
                              [] n = 5 -> (vx - vy + 256) % 256
                              [] n = 7 -> (vy - vx + 256) % 256
                   flag  == CASE n = 4 -> vx + vy > 255
                              [] n = 5 -> vy <= vx
                              [] n = 7 -> vx <= vy
               IN /\ result' = "Ok"
                  /\ reg'[15] = IF flag THEN 1 ELSE 0
                  /\ x # 15 => reg'[x] = value
                  /\ \A i \in 0..14 : i # x => reg'[i] = reg[i] ]_vars

\* SUB VF,V2 with VF = 3, V2 = 5 has run: the difference 0xFE was overwritten by
\* the flag 0 (borrow)
C17_Witness ==
    /\ rom = ROM_ALU(15, 2, 3, 5, 5)
    /\ Stepped
    /\ IsAlu(last.arg, { 5 })
    /\ result = "Ok"
    /\ reg[15] = 0
    /\ reg[2] = 5

(***************************************************************************)
(* C18 as claimed: Shift right (8xy6) and Shift left (8xyE), for all 8-bit *)
(* values: with shifting = true the source is Vx, with shifting = false Vx *)
(* is first set to Vy; VF becomes the bit shifted out of that value (bit 0 *)
(* for right, bit 7 for left) and Vx becomes the value shifted by one      *)
(* within 8 bits.                                                          *)
(***************************************************************************)
C18_ShiftSetsVxAndVF ==
    [][ (last'.op = "teak" /\ IsAlu(Opcode(Self), { 6, 14 }))
            => LET n   == Opcode(Self) % 16
                   x   == OpX(Opcode(Self))
                   src == IF quirks.shifting THEN reg[x] ELSE reg[OpY(Opcode(Self))]
               IN /\ result' = "Ok"
                  /\ reg'[15] = IF n = 6 THEN src % 2 ELSE src \div 128
                  /\ reg'[x] = IF n = 6 THEN src \div 2 ELSE (src * 2) % 256 ]_vars

(***************************************************************************)
(* C18 amended: as claimed when x is not 0xF. VF is assigned after Vx:     *)
(* when x = 0xF the register ends holding the bit shifted out, not the     *)
(* shifted value. No other register changes.                               *)
(***************************************************************************)
C18_ShiftSetsVFLast ==
    [][ (last'.op = "teak" /\ IsAlu(Opcode(Self), { 6, 14 }))
            => LET n   == Opcode(Self) % 16
                   x   == OpX(Opcode(Self))
                   src == IF quirks.shifting THEN reg[x] ELSE reg[OpY(Opcode(Self))]
               IN /\ result' = "Ok"
                  /\ reg'[15] = IF n = 6 THEN src % 2 ELSE src \div 128
                  /\ x # 15 => reg'[x] = IF n = 6 THEN src \div 2 ELSE (src * 2) % 256
                  /\ \A i \in 0..14 : i # x => reg'[i] = reg[i] ]_vars

\* SHR V1,V2 with shifting = false, V1 = 3, V2 = 4 has run: V1 = 2, VF = 0
C18_Witness ==
    /\ rom = ROM_ALU(1, 2, 3, 4, 6)
    /\ ~quirks.shifting
    /\ Stepped
    /\ IsAlu(last.arg, { 6 })
    /\ result = "Ok"
    /\ reg[1] = 2
    /\ reg[2] = 4
    /\ reg[15] = 0

(***************************************************************************)
(* Draw sprite (Dxyn): a sprite of the ROM drawn three times at one origin *)
(* and once more one column to the right                                   *)
(***************************************************************************)
\* 15 sprite rows; row 0 (AA) does not overlap itself shifted by one column
SPRITE == << 170, 255, 129, 60, 1, 128, 85, 240, 15, 24, 195, 126, 153, 36, 255 >>

\* the values loaded into Vx and Vy (taken mod 64 and mod 32 for the origin)
DrawXs == { 0, 5, 60, 67, 255 }

DrawYs == { 0, 20, 31, 33 }

\* the sprite heights n
DrawHeights == { 0, 1, 2, 15 }

\* the register fields << x, y >>: plain, VF as column, VF as row, x = y
DrawRegs == { << 1, 2 >>, << 15, 2 >>, << 2, 15 >>, << 3, 3 >> }

\* 200: LD I,212    202: LD Vx,cx    204: LD Vy,cy    206: DRW Vx,Vy,n
\* 208: DRW Vx,Vy,n 20A: DRW Vx,Vy,n 20C: ADD Vx,01   20E: DRW Vx,Vy,n
\* 210: JP 210      212: the sprite
ROM_DRAW(x, y, cx, cy, n) ==
    << 162, 18,  96 + x, cx,  96 + y, cy,  208 + x, y * 16 + n,  208 + x, y * 16 + n,
       208 + x, y * 16 + n,  112 + x, 1,  208 + x, y * 16 + n,  18, 16 >> \o SPRITE

InitDraw ==
    \E r \in DrawRegs, cx \in DrawXs, cy \in DrawYs, n \in DrawHeights :
        Constructed(ROM_DRAW(r[1], r[2], cx, cy, n), DefaultQuirks)

SpecDraw == InitDraw /\ [][TeakInRom]_vars

IsDraw(op) == op >= 0 /\ Header(op) = 13

\* no pixel of framebuffer v is lit
Blank(v) == \A idx \in DOMAIN v : v[idx] = 0

(***************************************************************************)
(* C19: the collision flag is computed fresh on every Draw: after a Draw,  *)
(* VF = 1 iff at least one drawn (unclipped) pixel had destination 1 and   *)
(* source bit 1 before the XOR, and VF = 0 otherwise, whatever VF was      *)
(* before and whatever earlier draws did. So a Draw on an empty            *)
(* framebuffer gives VF = 0, and the identical Draw at the same origin     *)
(* again restores the empty framebuffer and gives VF = 1 when the sprite   *)
(* has a lit unclipped pixel (VF = 0 when it has none).                    *)
(***************************************************************************)
C19_CollisionFlagFresh ==
    [][ (last'.op = "teak" /\ IsDraw(Opcode(Self)) /\ result' = "Ok")
            => LET x   == OpX(Opcode(Self))
                   y   == OpY(Opcode(Self))
                   n   == Opcode(Self) % 16
                   row == reg[y] % 32
                   col == reg[x] % 64
                   lit == { p \in (0..(n - 1)) \X (0..7) :
                              /\ row + p[1] <= 31
                              /\ col + p[2] <= 63
                              /\ Bit(memory[ri + p[1]], 7 - p[2]) = 1 }
                   collide == \E p \in lit :
                                 video_memory[(row + p[1]) * 64 + col + p[2]] = 1
                   again == op_display(Self', x, y, n)
               IN /\ reg'[15] = IF collide THEN 1 ELSE 0
                  /\ Blank(video_memory) => reg'[15] = 0
                  /\ (Blank(video_memory) /\ reg'[x] = reg[x] /\ reg'[y] = reg[y])
                        => /\ again.res = "Ok"
                           /\ Blank(again.m.video_memory)
                           /\ again.m.reg[15] = IF lit # {} THEN 1 ELSE 0 ]_vars

\* the third Draw of the sprite at (5, 20): the second one had erased it and set
\* VF = 1, this one drew it on the empty framebuffer again and VF is 0
C19_Witness ==
    /\ rom = ROM_DRAW(1, 2, 5, 20, 2)
    /\ Stepped
    /\ IsDraw(last.arg)
    /\ result = "Ok"
    /\ pc = PROGRAM_BASE_ADDRESS + 12
    /\ video_memory[20 * DISPLAY_WIDTH + 5] = 1
    /\ reg[15] = 0

(***************************************************************************)
(* C20: sprite placement wraps only the origin and clips the rest: a Draw  *)
(* of n rows uses origin row = Vy mod 32 and origin column = Vx mod 64     *)
(* (read before VF is cleared), XORs source bit j (MSB first) of sprite    *)
(* byte i into cell (row + i, col + j) only when row + i <= 31 and         *)
(* col + j <= 63, and leaves every other framebuffer cell unchanged (no    *)
(* pixel wraps to the opposite edge); every framebuffer cell stays 0 or 1. *)
(***************************************************************************)
C20_OriginWrapsPixelsClip ==
    [][ (last'.op = "teak" /\ IsDraw(Opcode(Self)) /\ result' = "Ok")
            => LET n   == Opcode(Self) % 16
                   row == reg[OpY(Opcode(Self))] % 32
                   col == reg[OpX(Opcode(Self))] % 64
               IN \A r \in 0..31 : \A c \in 0..63 :
                     /\ video_memory'[r * 64 + c] \in { 0, 1 }
                     /\ IF r >= row /\ r - row < n /\ c >= col /\ c - col < 8
                        THEN video_memory'[r * 64 + c]
                               = ( video_memory[r * 64 + c]
                                   + Bit(memory[ri + (r - row)], 7 - (c - col)) ) % 2
                        ELSE video_memory'[r * 64 + c] = video_memory[r * 64 + c] ]_vars

\* the first Draw of two rows at (60, 31): of row AA the bits 7..4 are in columns
\* 60..63, nothing wrapped to column 0 and row FF did not wrap to row 0
C20_Witness ==
    /\ rom = ROM_DRAW(1, 2, 60, 31, 2)
    /\ Stepped
    /\ IsDraw(last.arg)
    /\ result = "Ok"
    /\ pc = PROGRAM_BASE_ADDRESS + 8
    /\ video_memory[31 * DISPLAY_WIDTH + 60] = 1
    /\ video_memory[31 * DISPLAY_WIDTH + 62] = 1
    /\ video_memory[31 * DISPLAY_WIDTH] = 0
    /\ video_memory[60] = 0
    /\ video_memory[0] = 0

(***************************************************************************)
(* C21: Call/Return pairing: stepping Call nnn at address a with sp < 16   *)
(* sets pc = nnn, increments sp by 1 and stores a + 2 (the already         *)
(* advanced pc) as the top stack entry; a Return stepped when that entry   *)
(* is on top sets pc = a + 2 and decrements sp, so execution resumes at    *)
(* the instruction following the call.                                     *)
(***************************************************************************)
C21_CallReturnPairing ==
    [][ last'.op = "teak"
            => LET op == Opcode(Self)
               IN /\ (IsCall(op) /\ sp < STACK_SIZE)
                        => /\ result' = "Ok"
                           /\ pc' = op % 4096
                           /\ sp' = sp + 1
                           /\ StackEntry(Self', sp' - 1) = pc + 2
                           /\ LET r == op_return(Self', TRUE)
                              IN /\ r.res = "Ok"
                                 /\ r.m.pc = pc + 2
                                 /\ r.m.sp = sp
                  /\ (IsReturn(op) /\ sp > 0)
                        => /\ result' = "Ok"
                           /\ pc' = StackEntry(Self, sp - 1)
                           /\ sp' = sp - 1 ]_vars

\* the Return at 244 of ROM_CHAIN has popped the address the 16th Call (at 23E)
\* pushed: execution resumes at 240, right after that Call
C21_Witness ==
    /\ rom = ROM_CHAIN
    /\ Stepped
    /\ IsReturn(last.arg)
    /\ result = "Ok"
    /\ sp = STACK_SIZE - 1
    /\ pc = PROGRAM_BASE_ADDRESS + 64
    /\ IsCall(memory[pc - 2] * 256 + memory[pc - 1])

(***************************************************************************)
(* Key skips (Ex9E, ExA1): V1 loaded with a value, then one of the two     *)
(* skips, while the host presses and releases keys                         *)
(***************************************************************************)
\* the values loaded into V1: key codes, and bytes that are none
SkipValues == { 0, 5, 15, 16, 255 }

\* the low bytes of Ex9E and ExA1
SkipOps == { 158, 161 }

\* 200: LD V1,v   202: E1nn   204: JP 204   206: JP 206
ROM_SKIP(v, nn) == << 97, v,  225, nn,  18, 4,  18, 6 >>

InitKeys == \E v \in SkipValues, nn \in SkipOps : Constructed(ROM_SKIP(v, nn), DefaultQuirks)

NextKeys ==
    \/ TeakInRom
    \/ KeyDown
    \/ KeyUp

SpecKeys == InitKeys /\ [][NextKeys]_vars

IsKeySkip(op) == op >= 0 /\ Header(op) = 14 /\ op % 256 \in { 158, 161 }

(***************************************************************************)
(* C22: Ex9E and ExA1 only ever index the 16-entry keypad with a value in  *)
(* 0..15: for every 8-bit value of Vx the step completes with pc advanced  *)
(* by 2 or 4 according to keypad[Vx]; key_down and key_up change only the  *)
(* keypad entry of the given code.                                         *)
(* The handlers index the keypad with Vx as it is: a value of 16 or more   *)
(* is out of bounds and the call panics.                                   *)
(***************************************************************************)
C22_KeySkipInBounds ==
    [][ /\ (last'.op = "teak" /\ IsKeySkip(Opcode(Self)))
              => /\ result' = "Ok"
                 /\ pc' \in { pc + 2, pc + 4 }
                 /\ reg[OpX(Opcode(Self))] \in 0..(KEYPAD_SIZE - 1)
                       => pc' = IF keypad[reg[OpX(Opcode(Self))]]
                                     = (Opcode(Self) % 256 = 158)
                                THEN pc + 4 ELSE pc + 2
        /\ last'.op \in { "key_down", "key_up" }
              => /\ keypad' = [ keypad EXCEPT ![last'.arg] = (last'.op = "key_down") ]
                 /\ << reg, ri, dt, st, sp, pc, memory, video_memory, state >>'
                      = << reg, ri, dt, st, sp, pc, memory, video_memory, state >> ]_vars

(***************************************************************************)
(* Add index,Vx (Fx1E) in a loop: I starts at FFF and grows by Vx on every *)
(* turn until the sum passes FFFF                                          *)
(***************************************************************************)
\* the values added: 128 and 192 bring I back to a value it had after 512
\* and 1024 additions
IndexSteps == { 128, 192 }

\* the register added: a plain one, and VF
IndexRegs == { 1, 15 }

\* 200: LD I,FFF   202: LD Vx,v   204: ADD I,Vx   206: JP 204
ROM_PTR_ADD(x, v) == << 175, 255,  96 + x, v,  240 + x, 30,  18, 4 >>

InitIndex == \E x \in IndexRegs, v \in IndexSteps : Constructed(ROM_PTR_ADD(x, v), DefaultQuirks)

SpecIndex == InitIndex /\ [][TeakInRom]_vars

IsPtrAdd(op) == op >= 0 /\ Header(op) = 15 /\ op % 256 = 30

(***************************************************************************)
(* C23: Add index,Vx (Fx1E) sets I to I + Vx within the 16-bit index       *)
(* register and never modifies VF, for every reachable value of I and      *)
(* every Vx, repeated additions that carry I past 0x0FFF and up to the     *)
(* 16-bit limit included.                                                  *)
(* `self.ri += val as u16` has no wrapping or checked form: when the sum   *)
(* passes FFFF a build that traps overflow panics.                         *)
(***************************************************************************)
C23_PtrAddStaysIn16Bits ==
    [][ (last'.op = "teak" /\ IsPtrAdd(Opcode(Self)))
            => /\ result' = "Ok"
               /\ ri' = (ri + reg[OpX(Opcode(Self))]) % 65536
               /\ ri' \in 0..65535
               /\ reg' = reg ]_vars

(***************************************************************************)
(* Register dump (Fx55) and register load (Fx65): V0, V1, V2 and VF are    *)
(* given values, V0..Vx are dumped at I, the registers are overwritten and *)
(* V0..Vx are loaded back from the same address                            *)
(***************************************************************************)
\* the last register of the range: one register, a few, and all sixteen
MemRegs == { 0, 1, 2, 15 }

\* where I points: mid-memory, the last address where sixteen registers fit,
\* and one where only eight do
MemAddresses == { 768, 4080, 4088 }

\* the values of V0, V1, V2 and VF before the dump
MemValues == { << 17, 34, 51, 68 >>, << 255, 0, 1, 128 >> }

\* 200: LD V0,a   202: LD V1,b   204: LD V2,c   206: LD VF,d   208: LD I,addr
\* 20A: LD [I],Vx 20C: LD V0,EE  20E: LD V1,EE  210: LD V2,EE  212: LD VF,EE
\* 214: LD I,addr 216: LD Vx,[I] 218: JP 218
ROM_MEM(x, addr, v) ==
    << 96, v[1],  97, v[2],  98, v[3],  111, v[4],
       160 + (addr \div 256), addr % 256,  240 + x, 85,
       96, 238,  97, 238,  98, 238,  111, 238,
       160 + (addr \div 256), addr % 256,  240 + x, 101,  18, 24 >>

InitMem ==
    \E x \in MemRegs, addr \in MemAddresses, v \in MemValues, q \in QUIRKS :
        Constructed(ROM_MEM(x, addr, v), q)

SpecMem == InitMem /\ [][TeakInRom]_vars

IsRegDump(op) == op >= 0 /\ Header(op) = 15 /\ op % 256 = 85

IsRegLoad(op) == op >= 0 /\ Header(op) = 15 /\ op % 256 = 101

\* machine m with every register overwritten and I as given
Clobbered(m, i) == [ m EXCEPT !.reg = [ k \in DOMAIN @ |-> 238 ], !.ri = i ]

SoundValues == { 0, 1, 2, 3 }

\* the register they are stored from: a plain one, and VF
SoundRegs == { 1, 15 }

\* 200: LD Vx,v   202: LD ST,Vx   204: JP 204
ROM_SOUND(x, v) == << 96 + x, v,  240 + x, 24,  18, 4 >>

InitSound == \E x \in SoundRegs, v \in SoundValues : Constructed(ROM_SOUND(x, v), DefaultQuirks)

NextSound ==
    \/ TeakInRom
    \/ OnTimer
    \/ KeyDown
    \/ KeyUp
    \/ ToggleExecution

SpecSound == InitSound /\ [][NextSound]_vars

IsSetSound(op) == op >= 0 /\ Header(op) = 15 /\ op % 256 = 24

\* the calls the host interleaves once the sound timer is loaded
SoundCalls == { "on_timer", "teak", "key_down", "key_up", "toggle_execution" }

\* every order of up to four of them
SoundSchedules == UNION { [ 1..n -> SoundCalls ] : n \in 0..4 }

\* machine m after one call
Called(m, call) ==
    CASE call = "on_timer"         -> on_timer(m)
      [] call = "teak"             -> StepOf(m).m
      [] call = "key_down"         -> key_down(m, 5)
      [] call = "key_up"           -> key_up(m, 5)
      [] call = "toggle_execution" -> toggle_execution(m)

RECURSIVE AfterCalls(_, _)
\* machine m after the calls of a schedule, in order
AfterCalls(m, calls) ==
    IF calls = << >> THEN m ELSE AfterCalls(Called(m, Head(calls)), Tail(calls))

\* the number of on_timer() calls in a schedule
Ticks(calls) == Cardinality({ i \in DOMAIN calls : calls[i] = "on_timer" })

(***************************************************************************)
(* C25: is_audio_playing() is true exactly when the sound timer is > 0;    *)
(* after Load ST,Vx stores v, and with no later write to ST and no reset,  *)
(* is_audio_playing() is true until exactly v on_timer() calls have        *)
(* occurred and false from then on, whatever step(), key and toggle calls  *)
(* are interleaved: only Load ST,Vx and on_timer() change the sound timer, *)
(* and on_timer() takes one off it until it is 0.                          *)
(***************************************************************************)
C25_SoundGating ==
    [][ /\ is_audio_playing(Self') <=> st' > 0
        /\ (last'.op = "teak" /\ IsSetSound(Opcode(Self)))
              => /\ result' = "Ok"
                 /\ st' = reg[OpX(Opcode(Self))]
                 /\ \A calls \in SoundSchedules :
                       is_audio_playing(AfterCalls(Self', calls)) <=> Ticks(calls) < st'
        /\ (last'.op = "on_timer")
              => st' = IF st > 0 THEN st - 1 ELSE 0
        /\ (last'.op # "on_timer" /\ ~(last'.op = "teak" /\ IsSetSound(Opcode(Self))))
              => st' = st ]_vars

\* three ticks after Load ST,V1 stored 3, with a key held and execution
\* paused in between, the sound has just stopped
C25_Witness ==
    /\ last.op = "on_timer"
    /\ pc = 516
    /\ reg[1] = 3
    /\ st = 0
    /\ keypad[5]
    /\ state = "Paused"
    /\ ~is_audio_playing(Self)

(***************************************************************************)
(* C26: the wait-key instruction completes in two phases through the latch *)
(* in memory[0x000]: a step that finds the latch clear and some key        *)
(* pressed records the lowest-numbered pressed key there (bit 7 set) and   *)
(* rewinds pc; a wait-key step writes Vx := latched key, clears the latch  *)
(* and lets pc advance only when the latched key is no longer pressed; Vx  *)
(* is never written while the latched key is still held, and every other   *)
(* wait-key step rewinds pc by 2, leaving pc where it was before the step. *)
(***************************************************************************)
C26_WaitKeyTwoPhases ==
    [][ (last'.op = "teak" /\ IsWaitKey(Opcode(Self)))
            => LET x     == OpX(Opcode(Self))
                   val   == memory[KB_WAIT_KEYCODE_ADDRESS]
                   set   == val \div 128 = 1
                   code  == val % 16
                   held  == { k \in DOMAIN keypad : keypad[k] }
               IN /\ result' = "Ok"
                  /\ (~set /\ held # {})
                        => /\ \E k \in held :
                                /\ \A j \in held : k <= j
                                /\ memory' = [ memory EXCEPT ![KB_WAIT_KEYCODE_ADDRESS] = 128 + k ]
                           /\ reg' = reg
                           /\ pc' = pc
                  /\ (set /\ code \notin held)
                        => /\ reg' = [ reg EXCEPT ![x] = code ]
                           /\ memory' = [ memory EXCEPT ![KB_WAIT_KEYCODE_ADDRESS] = 0 ]
                           /\ pc' = pc + 2
                  /\ (set /\ code \in held)
                        => /\ reg' = reg
                           /\ memory' = memory
                           /\ pc' = pc
                  /\ (~set /\ held = {})
                        => /\ reg' = reg
                           /\ memory' = memory
                           /\ pc' = pc
                  /\ pc' \in { pc, pc + 2 }
                  /\ pc' = pc + 2 => (set /\ code \notin held) ]_vars

\* with keys 5 and F both held, a wait-key step has left key 5 in the latch,
\* pc on the opcode and Vx as it was
C26_Witness ==
    /\ Stepped
    /\ result = "Ok"
    /\ IsWaitKey(last.arg)
    /\ Opcode(Self) = last.arg
    /\ memory[KB_WAIT_KEYCODE_ADDRESS] = 133
    /\ keypad[5]
    /\ keypad[15]
    /\ reg[OpX(last.arg)] \notin KeyCodes

(***************************************************************************)
(* The host loop (Environment::run): every turn handles the pending        *)
(* events, then looks at the execution state (Terminated: leave the loop,  *)
(* Running: teak() and terminate() on an error, Paused: nothing), then     *)
(* ticks the timers when a 60th of a second has passed, then sleeps.       *)
(* last.op tells where the loop is: after "with_rom", "on_key_down",       *)
(* "on_key_up", "on_timer" and "sleep" it is handling events, after "teak" *)
(* and "paused" it is past the state match, after "break" it has ended.    *)
(* result keeps what the latest teak() returned.                           *)
(***************************************************************************)
\* Environment::new: the keys of the hexadecimal pad
key_mapping ==
    [ k \in { "Num1", "Num2", "Num3", "Num4", "Q", "W", "E", "R",
              "A", "S", "D", "F", "Z", "X", "C", "V" } |->
        CASE k = "Num1" -> 1  [] k = "Num2" -> 2  [] k = "Num3" -> 3  [] k = "Num4" -> 12
          [] k = "Q"    -> 4  [] k = "W"    -> 5  [] k = "E"    -> 6  [] k = "R"    -> 13
          [] k = "A"    -> 7  [] k = "S"    -> 8  [] k = "D"    -> 9  [] k = "F"    -> 14
          [] k = "Z"    -> 10 [] k = "X"    -> 0  [] k = "C"    -> 11 [] k = "V"    -> 15 ]

on_key_down(m, keycode) ==
    IF keycode \in DOMAIN key_mapping
    THEN key_down(m, key_mapping[keycode])
    ELSE CASE keycode = "Escape" -> terminate(m)
           [] keycode = "F5"     -> toggle_execution(m)
           [] keycode = "F9"     -> reset(m)
           [] OTHER              -> m

on_key_up(m, keycode) ==
    IF keycode \in DOMAIN key_mapping
    THEN key_up(m, key_mapping[keycode])
    ELSE m

\* the keys the user touches: a pad key, the three control keys, an unhandled key
HostKeycodes == { "W", "Escape", "F5", "F9", "Tab" }

\* 200: LD V0,05   202: LD ST,V0   204: 8008 (no such instruction)
ROM_HOST_UNKNOWN == << 96, 5,  240, 24,  128, 8 >>

\* 200: RET (nothing to return to)
ROM_HOST_RETURN == << 0, 238 >>

\* 200: JP 200
ROM_HOST_SPIN == << 18, 0 >>

InitHost ==
    \E r \in { ROM_HOST_UNKNOWN, ROM_HOST_RETURN, ROM_HOST_SPIN } : Constructed(r, DefaultQuirks)

\* the loop is at `for event in event_pump.poll_iter()`
Polling == last.op \in { "with_rom", "on_key_down", "on_key_up", "on_timer", "sleep" }

\* the loop is past `match self.machine.get_state()`
Matched == last.op \in { "teak", "paused" }

\* Event::Quit { .. } => break 'emu_loop
HostQuit ==
    /\ Alive
    /\ Polling
    /\ last' = [ op |-> "break", arg |-> 0 ]
    /\ UNCHANGED << machine, rom, quirks, result, alt, pushed >>

\* Event::KeyDown { keycode, .. } => self.on_key_down(keycode)
HostKeyDown ==
    /\ Alive
    /\ Polling
    /\ \E keycode \in HostKeycodes :
          /\ Store(on_key_down(Self, keycode))
          /\ last' = [ op |-> "on_key_down", arg |-> 0, keycode |-> keycode ]
    /\ UNCHANGED << result, alt, pushed >>

\* Event::KeyUp { keycode, .. } => self.on_key_up(keycode)
HostKeyUp ==
    /\ Alive
    /\ Polling
    /\ \E keycode \in HostKeycodes :
          /\ Store(on_key_up(Self, keycode))
          /\ last' = [ op |-> "on_key_up", arg |-> 0, keycode |-> keycode ]
    /\ UNCHANGED << result, alt, pushed >>

\* no event is left: match self.machine.get_state()
HostMatch ==
    /\ Alive
    /\ Polling
    /\ \/ /\ state = "Terminated"
          /\ last' = [ op |-> "break", arg |-> 0 ]
          /\ UNCHANGED << machine, rom, quirks, result >>
       \/ /\ state = "Running"
          /\ \E rnd \in RandChoices, checked \in BOOLEAN :
                LET r == teak(Self, rnd, checked, TRUE)
                IN /\ Store(IF r.res \in { "Ok", "Panic" } THEN r.m ELSE terminate(r.m))
                   /\ result' = r.res
          /\ last' = [ op |-> "teak", arg |-> Opcode(Self) ]
       \/ /\ state = "Paused"
          /\ last' = [ op |-> "paused", arg |-> 0 ]
          /\ UNCHANGED << machine, rom, quirks, result >>
    /\ UNCHANGED << alt, pushed >>

\* if refresh_time.elapsed().as_millis() >= 1000 / 60 { ... self.machine.on_timer() }
\* and the sleep that ends the turn
HostRefresh ==
    /\ Alive
    /\ Matched
    /\ \E elapsed \in BOOLEAN :
          IF elapsed
          THEN /\ Store(on_timer(Self))
               /\ last' = [ op |-> "on_timer", arg |-> 0 ]
          ELSE /\ Store(Self)
               /\ last' = [ op |-> "sleep", arg |-> 0 ]
    /\ UNCHANGED << result, alt, pushed >>

NextHost ==
    \/ HostQuit
    \/ HostKeyDown
    \/ HostKeyUp
    \/ HostMatch
    \/ HostRefresh

SpecHost == InitHost /\ [][NextHost]_vars

\* the latest teak() returned an error
Errored == result \notin { "None", "Ok", "Panic" }

(***************************************************************************)
(* C27: in the host loop teak() is invoked only while get_state() is       *)
(* Running, and once teak() has returned an error the machine is set to    *)
(* Terminated and no further instruction is ever executed, whatever key    *)
(* events (Escape, F5 toggle and F9 reset included) arrive afterwards.     *)
(* The turn in which teak() fails does not leave the loop: it goes on to   *)
(* the timer refresh and the sleep, and the next turn handles the pending  *)
(* events before it looks at the state, so an F9 pressed in between resets *)
(* the machine to Running and teak() is called again.                      *)
(***************************************************************************)
C27_ErrorEndsExecution ==
    [][ /\ last'.op = "teak" => state = "Running"
        /\ (last'.op = "teak" /\ Errored') => state' = "Terminated"
        /\ Errored => last'.op # "teak" ]_vars

=============================================================================
